---- MODULE Spec2Model ----
(***************************************************************************)
(* Model of the listener synchronisation and swap classification engine:   *)
(*   - the V3/V4 signed-delta classifier and the position-increase guard   *)
(*     (chains.runtime.ts), as operators, exercised by SpecPure;           *)
(*   - the alert pipeline: swap event -> handleSwap -> AlertQueue ->       *)
(*     sendPremiumBuyAlert (chains.runtime.ts, queue.ts, hybridApi.ts),    *)
(*     exercised by Spec, and by SpecSwap with every outcome of the RPC    *)
(*     calls of handleSwap;                                                *)
(*   - the reconciliation loop of liveBuyTracker.ts, exercised by          *)
(*     SpecTracker.                                                        *)
(* Times are milliseconds, as in the code.  USD values are kept in tenths   *)
(* of a dollar so that Math.round is a real conversion.                    *)
(***************************************************************************)
EXTENDS Integers, Sequences, FiniteSets, TLC

VARIABLES
    \* ---- storage.ts
    groupSettings,      \* Map<groupId, BuyBotSettings>
    \* ---- queue.ts : AlertQueue
    jobs,               \* AlertQueue.jobs
    inFlight,           \* AlertQueue.inFlight
    sentTimestamps,     \* AlertQueue.sentTimestamps
    droppedCount,       \* AlertQueue.droppedCount
    sending,            \* started jobs suspended on the Telegram send
    \* ---- utils/hybridApi.ts
    lastAlertAt,        \* Map<"group:pair", number>
    \* ---- chains.runtime.ts
    contractCheckCache, \* Map<"chain:addr", boolean>
    \* ---- environment
    now,                \* Date.now()
    \* ---- history (observation only, never read by the modelled code)
    history,            \* every job ever handed to enqueue, in order
    nStarted,           \* number of jobs tick has started
    ran,                \* what each started job did in sendPremiumBuyAlert
    delivered,          \* jobs whose Telegram send succeeded
    lastSwap,           \* the last swap event handled and what became of it
    boughtAt,           \* boughtAt[n]: the time swap event n was handled
    \* ---- pure-function harness
    pure,               \* last input/output of the classifier or the guard
    \* ---- liveBuyTracker.ts
    trackerRunning,     \* the trackerRunning flag
    syncTimer,          \* the syncTimer handle: a timer id, or 0 for null
    timers,             \* timers armed with setTimeout and not yet fired
    runtimes,           \* Map<ChainId, ChainRuntime>: chain -> object id
    heap,               \* the ChainRuntime objects still referenced
    passes,             \* executions of syncListeners suspended at an await
    trk,                \* history of the tracker (observation only)
    \* ---- queue.ts : AlertQueue
    timer,              \* AlertQueue.timer: TRUE while the interval is set
    \* ---- chains.runtime.ts : the new-pool scanners
    scannerAbortControllers, \* Map<ChainId, AbortController>: chain -> id
    scanners            \* the AbortControllers created: id -> [chain, aborted]

alertVars == <<groupSettings, jobs, inFlight, sentTimestamps, droppedCount,
               sending, lastAlertAt, contractCheckCache, now, history,
               nStarted, ran, delivered, lastSwap, boughtAt>>
trackerVars == <<trackerRunning, syncTimer, timers, runtimes, heap, passes, trk>>
scanVars == <<scannerAbortControllers, scanners>>
vars == <<alertVars, pure, trackerVars, timer, scanVars>>

(***************************************************************************)
(* Bounds of the model.                                                    *)
(***************************************************************************)
\* AlertQueue.MAX_QUEUE_SIZE is 5000 in queue.ts:19; the model scales it down.
MAX_QUEUE_SIZE == 3
\* globalAlertQueue is built with maxPerSecond 25, maxInFlight 4 (queue.ts:84-87);
\* the constructor takes both as options, the model uses small ones.
maxPerSecond == 2
maxInFlight == 2
\* number of swap events delivered by the transport in one run
MaxEvents == 3
\* number of swap events in one run of the swap handler alone (SpecSwap)
MaxSwaps == 2
\* number of one-second clock steps in one run
MaxClock == 3
\* the largest |delta| of a signed-delta swap event
MaxDelta == 2

\* Date.now() when the process starts (any value larger than every cooldown)
StartTime == 10000

Max(a, b) == IF a >= b THEN a ELSE b
Min(a, b) == IF a <= b THEN a ELSE b
Abs(a) == IF a < 0 THEN 0 - a ELSE a

(***************************************************************************)
(* Addresses.  "P1" is the checksummed (mixed-case) spelling of pool "p1". *)
(***************************************************************************)
toLowerCase(a) ==
    CASE a = "P1" -> "p1"
      [] a = "P2" -> "p2"
      [] a = "T"  -> "t"
      [] a = "W"  -> "w"
      [] OTHER    -> a

(***************************************************************************)
(* Swap classifier for the signed-delta event shapes (V3 and V4 handlers   *)
(* of attachSwapListener share this code).  The result says whether        *)
(* handleSwap is called and with which four amounts.                       *)
(***************************************************************************)
\* the test of the callbacks with a zero delta taken for a buy
IsBuyDeltaOrZero(isToken0, a0, a1) ==
    (isToken0 /\ a0 <= 0) \/ (~isToken0 /\ a1 <= 0)

\* const isBuy = (isToken0 && a0 < 0n) || (!isToken0 && a1 < 0n)
IsBuyDelta(isToken0, a0, a1) ==
    (isToken0 /\ a0 < 0) \/ (~isToken0 /\ a1 < 0)

\* the in-amounts taken as the magnitudes of the deltas, whatever their sign
ClassifyDeltaMagnitudes(token0, targetTokenLower, a0, a1) ==
    LET isToken0 == token0 = targetTokenLower
        isBuy    == IsBuyDelta(isToken0, a0, a1)
    IN  [ passed     |-> isBuy,
          amount0In  |-> Abs(a0),
          amount1In  |-> Abs(a1),
          amount0Out |-> IF a0 < 0 THEN 0 - a0 ELSE 0,
          amount1Out |-> IF a1 < 0 THEN 0 - a1 ELSE 0 ]

ClassifyDelta(token0, targetTokenLower, a0, a1) ==
    LET isToken0 == token0 = targetTokenLower
        isBuy    == IsBuyDelta(isToken0, a0, a1)
    IN  [ passed     |-> isBuy,
          amount0In  |-> IF a0 > 0 THEN a0 ELSE 0,
          amount1In  |-> IF a1 > 0 THEN a1 ELSE 0,
          amount0Out |-> IF a0 < 0 THEN 0 - a0 ELSE 0,
          amount1Out |-> IF a1 < 0 THEN 0 - a1 ELSE 0 ]

(***************************************************************************)
(* Position-increase guard of handleSwap.  usdX10 is the USD value in      *)
(* tenths of a dollar.  The result is [isNull, value].  getPreviousBalance *)
(* answers 0 when the runtime is missing or the RPC read fails.            *)
(***************************************************************************)
MIN_POSITION_USD == 100

MAX_PERCENT_TIMES10 == 1000000 * 10

\* Math.round of a non-negative number given in tenths
MathRound(x10) == (x10 + 5) \div 10

getPreviousBalance(hasRuntime, rpcOk, balance) ==
    IF ~hasRuntime THEN 0 ELSE IF rpcOk THEN balance ELSE 0

NullPosition == [isNull |-> TRUE, value |-> 0]

PositionIncrease(usdX10, prevBalance, thisBuyAmount) ==
    IF usdX10 >= MIN_POSITION_USD * 10
    THEN IF prevBalance > 0
         THEN LET increaseTimes10 == (thisBuyAmount * 1000) \div prevBalance
              IN  IF increaseTimes10 <= MAX_PERCENT_TIMES10
                  THEN IF increaseTimes10 > 0
                       THEN [isNull |-> FALSE, value |-> MathRound(increaseTimes10)]
                       ELSE NullPosition
                  ELSE NullPosition
         ELSE NullPosition
    ELSE NullPosition

(***************************************************************************)
(* Base-token decimals of handleSwap.  reported is what the market-data    *)
(* provider says of the spent token: [has, symbol, decimals], has FALSE    *)
(* when there is no pair data, when the spent token is neither side of it  *)
(* or when its decimals field is not a finite number.  onChain is the      *)
(* outcome of the decimals() read: [ok, value], ok FALSE when there is no  *)
(* runtime or the call throws.                                             *)
(***************************************************************************)
toUpperCase(sym) ==
    CASE sym = "usdt" -> "USDT"
      [] OTHER        -> sym

DEFAULT_DECIMALS == 18
STABLE_DECIMALS == 6
MAX_DECIMALS == 36

baseTokenDecimals(reported, onChain) ==
    LET d0  == IF reported.has THEN reported.decimals ELSE DEFAULT_DECIMALS
        sym == toUpperCase(reported.symbol)
        d1  == IF d0 = DEFAULT_DECIMALS /\ sym \in {"USDC", "USDT", "DAI", "BUSD"}
               THEN STABLE_DECIMALS ELSE d0
    IN  IF /\ d1 = DEFAULT_DECIMALS
           /\ onChain.ok /\ onChain.value >= 0 /\ onChain.value <= MAX_DECIMALS
        THEN onChain.value ELSE d1

(***************************************************************************)
(* getAllValidPairs: the pools the discovery API lists for a token, kept   *)
(* when they are on the chain, trade the token and hold at least the       *)
(* liquidity floor, sorted by liquidity (Array.prototype.sort is stable)   *)
(* and cut to the first TOP_PAIRS.  An API entry is [chainId, tokenMatch,  *)
(* liquidityUsd, address]; a failed fetch answers the empty list.          *)
(***************************************************************************)
\* slice(0, 15) in chains.runtime.ts; the model scales it down
TOP_PAIRS == 2
\* the largest number of pools in one answer of the discovery API
MaxApiPairs == 3

LIQUIDITY_FLOOR == 10

getChainIdNumber(chain) ==
    CASE chain = "ethereum" -> "1"
      [] chain = "bsc"      -> "56"
      [] chain = "base"     -> "8453"
      [] chain = "monad"    -> "143"
      [] OTHER              -> "undefined"

IsValidPair(p, chain) ==
    /\ p.chainId = chain \/ p.chainId = getChainIdNumber(chain)
    /\ p.tokenMatch
    /\ p.liquidityUsd >= LIQUIDITY_FLOOR

InsertByLiquidity(sorted, x) ==
    LET k == Cardinality({i \in 1..Len(sorted) :
                            sorted[i].liquidityUsd >= x.liquidityUsd})
    IN  SubSeq(sorted, 1, k) \o <<x>> \o SubSeq(sorted, k + 1, Len(sorted))

RECURSIVE SortByLiquidity(_)
SortByLiquidity(s) ==
    IF s = <<>> THEN <<>>
    ELSE InsertByLiquidity(SortByLiquidity(SubSeq(s, 1, Len(s) - 1)), s[Len(s)])

\* the answer cut to TOP_PAIRS in the order of the API, without the sort
getAllValidPairsUnsorted(api, apiOk, chain) ==
    IF ~apiOk \/ api = <<>> THEN <<>>
    ELSE LET valid == SelectSeq(api, LAMBDA p : IsValidPair(p, chain))
         IN  SubSeq(valid, 1, IF Len(valid) < TOP_PAIRS THEN Len(valid)
                                                        ELSE TOP_PAIRS)

getAllValidPairs(api, apiOk, chain) ==
    IF ~apiOk \/ api = <<>> THEN <<>>
    ELSE LET valid  == SelectSeq(api, LAMBDA p : IsValidPair(p, chain))
             sorted == SortByLiquidity(valid)
         IN  SubSeq(sorted, 1, IF Len(sorted) < TOP_PAIRS THEN Len(sorted)
                                                          ELSE TOP_PAIRS)

\* syncListeners 2), for one group whose pool list is empty: the group of a
\* chain without an RPC endpoint is passed over, else the list is filled
\* with the addresses of the pools found, if any, and marked dirty
AutoFill(settings, configured, api, apiOk) ==
    IF ~configured
    THEN [called |-> FALSE, list |-> settings.allPairAddresses, dirty |-> FALSE]
    ELSE LET validPairs == getAllValidPairs(api, apiOk, settings.chain)
         IN  IF Len(validPairs) > 0
             THEN [called |-> TRUE, dirty |-> TRUE,
                   list |-> [i \in 1..Len(validPairs) |-> validPairs[i].address]]
             ELSE [called |-> TRUE, dirty |-> FALSE,
                   list |-> settings.allPairAddresses]

(***************************************************************************)
(* Group settings (storage.ts, feature.buyBot).  maxBuyUsd 0 stands for    *)
(* "not set" (the code tests `settings.maxBuyUsd &&`); hasCooldown FALSE   *)
(* stands for an undefined cooldownSeconds.                                *)
(***************************************************************************)
Groups == {1, 2, 3}
Chains == {"bsc", "monad"}

InitialSettings ==
    [g \in Groups |->
        CASE g = 1 -> [chain |-> "bsc", tokenAddress |-> "t",
                       allPairAddresses |-> <<"P1">>,
                       minBuyUsd |-> 100, maxBuyUsd |-> 0,
                       hasCooldown |-> FALSE, cooldownSeconds |-> 0]
          [] g = 2 -> [chain |-> "bsc", tokenAddress |-> "t",
                       allPairAddresses |-> <<"p1">>,
                       minBuyUsd |-> 0, maxBuyUsd |-> 120,
                       hasCooldown |-> TRUE, cooldownSeconds |-> 2]
          [] OTHER -> [chain |-> "monad", tokenAddress |-> "t",
                       allPairAddresses |-> <<"p1">>,
                       minBuyUsd |-> 100, maxBuyUsd |-> 0,
                       hasCooldown |-> TRUE, cooldownSeconds |-> 2]]

\* groups in Map iteration (insertion) order
RECURSIVE SortedSeq(_)
SortedSeq(S) ==
    IF S = {} THEN <<>>
    ELSE LET m == CHOOSE x \in S : \A y \in S : x <= y
         IN  <<m>> \o SortedSeq(S \ {m})

SeqToSet(q) == {q[i] : i \in 1..Len(q)}

ListsPool(settings, pairAddress) ==
    \E i \in 1..Len(settings.allPairAddresses) :
        toLowerCase(settings.allPairAddresses[i]) = toLowerCase(pairAddress)

\* handleSwap: the groups an event of (chain, pairAddress) is related to
RelatedGroups(gs, chain, pairAddress) ==
    SortedSeq({g \in DOMAIN gs :
                 gs[g].chain = chain /\ ListsPool(gs[g], pairAddress)})

(***************************************************************************)
(* AlertQueue.enqueue on q = [jobs, droppedCount].                         *)
(***************************************************************************)
\* enqueue as in the older copy of the queue: overflow is not counted
EnqueueNoCount(q, job) ==
    IF Len(q.jobs) >= MAX_QUEUE_SIZE
    THEN [jobs |-> Append(Tail(q.jobs), job), droppedCount |-> q.droppedCount]
    ELSE [jobs |-> Append(q.jobs, job), droppedCount |-> q.droppedCount]

Enqueue(q, job) ==
    IF Len(q.jobs) >= MAX_QUEUE_SIZE
    THEN [jobs |-> Append(Tail(q.jobs), job), droppedCount |-> q.droppedCount + 1]
    ELSE [jobs |-> Append(q.jobs, job), droppedCount |-> q.droppedCount]

RECURSIVE EnqueueAll(_, _)
EnqueueAll(q, js) ==
    IF js = <<>> THEN q ELSE EnqueueAll(Enqueue(q, Head(js)), Tail(js))

(***************************************************************************)
(* AlertQueue.canSendNow: drops the timestamps older than one second and   *)
(* compares what is left with maxPerSecond.                                *)
(***************************************************************************)
\* a timestamp that is never old enough to be dropped
ExpiredNever(stamp, t) == FALSE

\* now - this.sentTimestamps[0] > 1000
Expired(stamp, t) == t - stamp > 1000

RECURSIVE DropOld(_, _)
DropOld(ts, t) ==
    IF ts # <<>> /\ Expired(Head(ts), t) THEN DropOld(Tail(ts), t) ELSE ts

\* the comparison with maxPerSecond off by one
canSendNowOffByOne(ts, t) == Len(DropOld(ts, t)) <= maxPerSecond

canSendNow(ts, t) == Len(DropOld(ts, t)) < maxPerSecond

(***************************************************************************)
(* isContractAddress: the cached answer, else FALSE without a runtime,     *)
(* else getCode (FALSE when it throws).  Every computed answer is cached.  *)
(* The cache is a function from <<chain, address>> to BOOLEAN.             *)
(***************************************************************************)
HasCode(addr) == addr \in {"ctr", "ctr2"}

CachePut(cache, key, v) ==
    [k \in DOMAIN cache \cup {key} |-> IF k = key THEN v ELSE cache[k]]

isContractAddress(cache, chain, address, hasRuntime, codeOk) ==
    LET key == <<chain, toLowerCase(address)>>
    IN  IF key \in DOMAIN cache
        THEN [isContract |-> cache[key], cache |-> cache]
        ELSE IF ~hasRuntime
        THEN [isContract |-> FALSE, cache |-> CachePut(cache, key, FALSE)]
        ELSE IF codeOk
        THEN [isContract |-> HasCode(toLowerCase(address)),
              cache |-> CachePut(cache, key, HasCode(toLowerCase(address)))]
        ELSE [isContract |-> FALSE, cache |-> CachePut(cache, key, FALSE)]

(***************************************************************************)
(* Inputs of a swap event and of the calls handleSwap makes.               *)
(***************************************************************************)
\* the subscription the events of pool "p1" come from (attachSwapListener's
\* closure): tokens read from the pool and the target token of attach time
SubTokens == [token0 |-> "t", token1 |-> "w"]
SubTarget == "t"

\* the `to` of an event: an account, a contract, or a string that
\* ethers.utils.getAddress rejects
Recipients  == {"eoa", "ctr", "bad"}
\* ethers.utils.getAddress(to) returns
IsWellFormed(to) == to # "bad"
\* getTransaction: tx.from is that address, or the tx is missing, or the call throws
TxOutcomes  == {"eoa", "ctr2", "missing", "fail"}
\* USD value of the buy after enrichment, in tenths of a dollar
UsdValues   == {800, 1500}
\* what getAllValidPairs may answer for the token of the groups
Discoverable == {<<>>, <<"P1">>}
\* (amount0In, amount1In, amount0Out, amount1Out) of two-reserve Swap events
V2Amounts == { [amount0In |-> 0, amount1In |-> 5, amount0Out |-> 7, amount1Out |-> 0],
               [amount0In |-> 7, amount1In |-> 0, amount0Out |-> 0, amount1Out |-> 5] }
Deltas == (0 - MaxDelta)..MaxDelta
\* (amount0, amount1) of signed-delta Swap events: a buy of token0, a sell of
\* token0, both tokens paid out, token0 paid out for nothing
QuietDeltas == { <<0 - 7, 5>>, <<7, 0 - 5>> }
SwapDeltas == { <<0 - 7, 5>>, <<7, 0 - 5>>, <<0 - 7, 0 - 5>>, <<0 - 7, 0>> }

NoSwap == [n |-> 0, chain |-> "none", to |-> "none", handled |-> FALSE,
           hasRuntime |-> TRUE, codeOk |-> TRUE, tx |-> "none",
           buyer |-> "none", enq |-> 0, usdX10 |-> 0, buy |-> FALSE,
           related |-> 0, unhandled |-> FALSE]

(***************************************************************************)
(* handleSwap, from the lookup of the related groups to the fan-out.  e    *)
(* holds the outcomes of the calls it awaits: e.discovered                 *)
(* (getAllValidPairs), e.hasRuntime (runtimes.get), e.codeOk and           *)
(* e.fromCodeOk (getCode succeeded), e.tx (getTransaction), e.usdX10 (the  *)
(* enriched USD value).  The result is the new groupSettings, the new      *)
(* contract-check cache, the buyer and the jobs handed to enqueue, and     *)
(* whether the promise handleSwap returned was rejected.                   *)
(***************************************************************************)
\* the sides taken from the slot of the target token for the in-amount and
\* from the other slot for the out-amount
SwapSidesCrossed(tokens, targetToken, am) ==
    LET isToken0 == tokens.token0 = targetToken
        isToken1 == tokens.token1 = targetToken
        baseIn   == IF isToken0 THEN am.amount0In ELSE am.amount1In
        tokenOut == IF isToken0 THEN am.amount1Out ELSE am.amount0Out
    IN  [isToken0 |-> isToken0, isToken1 |-> isToken1,
         baseIn |-> baseIn, tokenOut |-> tokenOut,
         accepted |-> (isToken0 \/ isToken1) /\ baseIn > 0 /\ tokenOut > 0]

\* handleSwap: the sides of the swap seen from the target token, and whether
\* the event goes on to buyer resolution
SwapSides(tokens, targetToken, am) ==
    LET isToken0 == tokens.token0 = targetToken
        isToken1 == tokens.token1 = targetToken
        baseIn   == IF isToken0 THEN am.amount1In ELSE am.amount0In
        tokenOut == IF isToken0 THEN am.amount0Out ELSE am.amount1Out
    IN  [isToken0 |-> isToken0, isToken1 |-> isToken1,
         baseIn |-> baseIn, tokenOut |-> tokenOut,
         accepted |-> (isToken0 \/ isToken1) /\ baseIn > 0 /\ tokenOut > 0]

SettingsOfJob(st) ==
    [minBuyUsd |-> st.minBuyUsd, maxBuyUsd |-> st.maxBuyUsd,
     hasCooldown |-> st.hasCooldown, cooldownSeconds |-> st.cooldownSeconds]

\* the fan-out reaching only the first related group
FanOutFirstOnly(gs, related, n, pairAddress, usdX10, buyer) ==
    [i \in 1..1 |->
        [ev |-> n, groupId |-> related[i], s |-> SettingsOfJob(gs[related[i]]),
         usdX10 |-> usdX10, buyer |-> buyer, pairAddress |-> pairAddress]]

FanOut(gs, related, n, pairAddress, usdX10, buyer) ==
    [i \in 1..Len(related) |->
        [ev |-> n, groupId |-> related[i], s |-> SettingsOfJob(gs[related[i]]),
         usdX10 |-> usdX10, buyer |-> buyer, pairAddress |-> pairAddress]]

handleSwap(gs, cache, n, chain, pairAddress, tokens, am, to, e) ==
    LET related == RelatedGroups(gs, chain, pairAddress)
        none(g, c) == [gs |-> g, cache |-> c, buyer |-> "none", out |-> <<>>,
                       rejected |-> FALSE]
    IN  IF related = <<>> THEN none(gs, cache)
        ELSE
        LET g0       == related[1]
            settings == gs[g0]
            gs1 == IF Len(settings.allPairAddresses) <= 1 /\ Len(e.discovered) > 0
                   THEN [gs EXCEPT ![g0].allPairAddresses = e.discovered]
                   ELSE gs
            targetToken == toLowerCase(settings.tokenAddress)
            sides == SwapSides(tokens, targetToken, am)
            rc == isContractAddress(cache, chain, to, e.hasRuntime, e.codeOk)
            from == e.tx
            rf == isContractAddress(rc.cache, chain, from, e.hasRuntime, e.fromCodeOk)
            alert(c, buyer) ==
                [gs |-> gs1, cache |-> c, buyer |-> buyer, rejected |-> FALSE,
                 out |-> FanOut(gs1, related, n, pairAddress, e.usdX10, buyer)]
        IN  IF ~sides.isToken0 /\ ~sides.isToken1 THEN none(gs1, cache)
            ELSE IF sides.baseIn <= 0 \/ sides.tokenOut <= 0 THEN none(gs1, cache)
            ELSE IF ~IsWellFormed(to)
                 THEN [none(gs1, cache) EXCEPT !.rejected = TRUE]
            ELSE IF rc.isContract
                 THEN IF chain = "monad"
                      THEN IF e.tx = "fail" THEN none(gs1, rc.cache)
                           ELSE IF ~e.hasRuntime \/ e.tx = "missing"
                                THEN none(gs1, rc.cache)
                           ELSE IF ~rf.isContract
                                THEN alert(rf.cache, from)
                                ELSE none(gs1, rf.cache)
                      ELSE none(gs1, rc.cache)
                 ELSE alert(rc.cache, to)

\* handleSwap: the event is a buy of the target token of the first related
\* group (it gets past the token check and the amount guard)
IsBuy(gs, chain, pairAddress, tokens, am) ==
    LET related == RelatedGroups(gs, chain, pairAddress)
    IN  /\ related # <<>>
        /\ SwapSides(tokens, toLowerCase(gs[related[1]].tokenAddress), am).accepted

\* the state change of one call of handleSwap.  The callbacks call it
\* without await and without a rejection handler: when its promise is
\* rejected, the rejection is unhandled.
HandleSwapStep(chain, am, to, e) ==
    LET n == lastSwap.n + 1
        r == handleSwap(groupSettings, contractCheckCache, n, chain, "p1",
                        SubTokens, am, to, e)
        q == EnqueueAll([jobs |-> jobs, droppedCount |-> droppedCount], r.out)
    IN  /\ groupSettings' = r.gs
        /\ contractCheckCache' = r.cache
        /\ jobs' = q.jobs
        /\ droppedCount' = q.droppedCount
        /\ history' = history \o r.out
        /\ lastSwap' = [n |-> n, chain |-> chain, to |-> to, handled |-> TRUE,
                        hasRuntime |-> e.hasRuntime, codeOk |-> e.codeOk,
                        tx |-> e.tx, buyer |-> r.buyer, enq |-> Len(r.out),
                        usdX10 |-> e.usdX10, unhandled |-> r.rejected,
                        buy |-> IsBuy(groupSettings, chain, "p1", SubTokens, am),
                        related |-> Len(RelatedGroups(groupSettings, chain, "p1"))]
        /\ boughtAt' = Append(boughtAt, now)
        /\ UNCHANGED <<inFlight, sentTimestamps, sending, lastAlertAt, now,
                       nStarted, ran, delivered, pure, timer, scanVars, trackerVars>>

\* the outcomes of the awaited calls; those a path does not reach are fixed
AllOutcomes ==
    [discovered : Discoverable, hasRuntime : BOOLEAN, codeOk : BOOLEAN,
     fromCodeOk : BOOLEAN, tx : TxOutcomes, usdX10 : UsdValues]

CallOutcomes ==
    [chain \in Chains, to \in Recipients |->
      { e \in AllOutcomes :
        /\ (chain # "monad" \/ ~HasCode(to)) => (e.tx = "eoa" /\ e.fromCodeOk)
        /\ e.tx \in {"missing", "fail", "eoa"} => e.fromCodeOk
        /\ ~e.hasRuntime => (e.codeOk /\ e.fromCodeOk) }]

\* the undisturbed environment: an EOA recipient on bsc, every call succeeds,
\* discovery finds nothing new
QuietOutcomes ==
    { e \in AllOutcomes : /\ e.discovered = <<>> /\ e.hasRuntime /\ e.codeOk
                          /\ e.fromCodeOk /\ e.tx = "eoa" }

\* V2 Swap callback of attachSwapListener
V2SwapOf(chains, recipients, quiet) ==
    /\ lastSwap.n < (IF quiet THEN MaxEvents ELSE MaxSwaps)
    /\ \E chain \in chains, am \in V2Amounts, to \in recipients :
         \E e \in IF quiet THEN QuietOutcomes ELSE CallOutcomes[chain, to] :
            HandleSwapStep(chain, am, to, e)

\* V3 / V4 Swap callbacks of attachSwapListener
DeltaSwapOf(chains, recipients, quiet) ==
    /\ lastSwap.n < (IF quiet THEN MaxEvents ELSE MaxSwaps)
    /\ \E chain \in chains, to \in recipients,
            d \in IF quiet THEN QuietDeltas ELSE SwapDeltas :
         LET c == ClassifyDelta(SubTokens.token0, SubTarget, d[1], d[2])
             am == [amount0In |-> c.amount0In, amount1In |-> c.amount1In,
                    amount0Out |-> c.amount0Out, amount1Out |-> c.amount1Out]
         IN  IF c.passed
             THEN \E e \in IF quiet THEN QuietOutcomes ELSE CallOutcomes[chain, to] :
                     HandleSwapStep(chain, am, to, e)
             ELSE /\ lastSwap' = [NoSwap EXCEPT !.n = lastSwap.n + 1,
                                   !.chain = chain, !.to = to]
                  /\ boughtAt' = Append(boughtAt, now)
                  /\ UNCHANGED <<groupSettings, jobs, inFlight, sentTimestamps,
                                 droppedCount, sending, lastAlertAt,
                                 contractCheckCache, now, history, nStarted,
                                 ran, delivered, pure, timer, scanVars, trackerVars>>

\* swap events in the undisturbed environment
V2Swap == V2SwapOf({"bsc"}, {"eoa"}, TRUE)
V3Swap == DeltaSwapOf({"bsc"}, {"eoa"}, TRUE)
V4Swap == DeltaSwapOf({"bsc"}, {"eoa"}, TRUE)

\* swap events with every recipient and every outcome of the awaited calls
V2SwapAny == V2SwapOf(Chains, Recipients, FALSE)
V3SwapAny == DeltaSwapOf(Chains, Recipients, FALSE)
V4SwapAny == DeltaSwapOf(Chains, Recipients, FALSE)

(***************************************************************************)
(* sendPremiumBuyAlert up to its first await: the USD filters and the      *)
(* cooldown.  "sent" means that the cooldown stamp is written and the      *)
(* Telegram send is started.                                               *)
(***************************************************************************)
CooldownKey(job) == <<job.groupId, toLowerCase(job.pairAddress)>>

\* the two early returns with the upper bound left out
OutsideBoundsMinOnly(buyUsd, s) == buyUsd < s.minBuyUsd

\* sendPremiumBuyAlert's two early returns on the rounded USD value
OutsideBounds(buyUsd, s) ==
    \/ buyUsd < s.minBuyUsd
    \/ s.maxBuyUsd # 0 /\ buyUsd > s.maxBuyUsd

\* the cooldown compared in seconds against a difference in milliseconds
AdmissionCooldownInSeconds(job, t, last) ==
    LET buyUsd == MathRound(job.usdX10)
        key    == CooldownKey(job)
        cdMs   == IF job.s.hasCooldown THEN job.s.cooldownSeconds ELSE 3
        lastT  == IF key \in DOMAIN last THEN last[key] ELSE 0
    IN  IF OutsideBounds(buyUsd, job.s) THEN "filtered"
        ELSE IF t - lastT < cdMs THEN "cooldown"
        ELSE "sent"

Admission(job, t, last) ==
    LET buyUsd == MathRound(job.usdX10)
        key    == CooldownKey(job)
        cdMs   == (IF job.s.hasCooldown THEN job.s.cooldownSeconds ELSE 3) * 1000
        lastT  == IF key \in DOMAIN last THEN last[key] ELSE 0
    IN  IF OutsideBounds(buyUsd, job.s) THEN "filtered"
        ELSE IF t - lastT < cdMs THEN "cooldown"
        ELSE "sent"

(***************************************************************************)
(* AlertQueue.tick (a tick that returns at once, on an empty queue or a    *)
(* full in-flight window, is no step).  job.run() runs sendPremiumBuyAlert *)
(* up to its first await; when it returns before sending, its promise is   *)
(* already settled and the finally handler undoes inFlight++ before any    *)
(* other task runs.                                                        *)
(***************************************************************************)
\* tick's second early return, read as "a job may start": the guard with an
\* off-by-one
HasRoomOffByOne(n) == n <= maxInFlight

HasRoom(n) == n < maxInFlight

\* jobs.shift() taken from the wrong end of the array
Pop(q) == [job |-> q[Len(q)], rest |-> SubSeq(q, 1, Len(q) - 1)]

\* jobs.shift()
Shift(q) == [job |-> Head(q), rest |-> Tail(q)]

\* the settle handler attached with then() instead of finally()
SettleThen(n, ok) == IF ok THEN n - 1 ELSE n

\* .finally(() => { this.inFlight--; }) once the promise of run() has settled
SettleFinally(n, ok) == n - 1

\* throws holds whether the formatting code of sendPremiumBuyAlert, between
\* the cooldown stamp and the send, may throw: run() then returns a promise
\* that is already rejected, and catch and finally run before any other task
TickOf(throws) ==
    /\ timer
    /\ jobs # <<>>
    /\ HasRoom(inFlight)
    /\ IF ~canSendNow(sentTimestamps, now)
       THEN /\ sentTimestamps' = DropOld(sentTimestamps, now)
            /\ UNCHANGED <<jobs, inFlight, sending, lastAlertAt, nStarted, ran>>
       ELSE LET job == Shift(jobs).job
                res == Admission(job, now, lastAlertAt)
            IN  \E threw \in (IF res = "sent" THEN throws ELSE {FALSE}) :
                /\ jobs' = Shift(jobs).rest
                /\ sentTimestamps' = Append(DropOld(sentTimestamps, now), now)
                /\ nStarted' = nStarted + 1
                /\ ran' = ran \cup {[ev |-> job.ev, groupId |-> job.groupId,
                                     pairAddress |-> job.pairAddress,
                                     usdX10 |-> job.usdX10, s |-> job.s,
                                     at |-> now, res |-> res,
                                     epoch |-> trk.nClears,
                                     seq |-> nStarted + 1, threw |-> threw]}
                /\ lastAlertAt' = IF res = "sent"
                                  THEN CachePut(lastAlertAt, CooldownKey(job), now)
                                  ELSE lastAlertAt
                /\ IF res = "sent" /\ ~threw
                   THEN /\ sending' = sending \cup {job}
                        /\ inFlight' = inFlight + 1
                   ELSE /\ sending' = sending
                        /\ inFlight' = SettleFinally(inFlight + 1, FALSE)
    /\ UNCHANGED <<groupSettings, droppedCount, contractCheckCache, now, history,
                   delivered, lastSwap, boughtAt, pure, timer, scanVars, trackerVars>>

\* ticks of the undisturbed environment: the formatting code does not throw
Tick == TickOf({FALSE})

\* ticks with every outcome of run()
TickAny == TickOf(BOOLEAN)

\* the Telegram send of a started job settles; a failure is caught and logged
SendSettles ==
    \E job \in sending, ok \in BOOLEAN :
        /\ sending' = sending \ {job}
        /\ inFlight' = SettleFinally(inFlight, ok)
        /\ delivered' = IF ok THEN delivered \cup {<<job.ev, job.groupId>>}
                        ELSE delivered
        /\ UNCHANGED <<groupSettings, jobs, sentTimestamps, droppedCount,
                       lastAlertAt, contractCheckCache, now, history, nStarted,
                       ran, lastSwap, boughtAt, pure, timer, scanVars, trackerVars>>

\* time passes
Elapse(ms) ==
    /\ now + ms <= StartTime + MaxClock * 1000
    /\ now' = now + ms
    /\ UNCHANGED <<groupSettings, jobs, inFlight, sentTimestamps, droppedCount,
                   sending, lastAlertAt, contractCheckCache, history, nStarted,
                   ran, delivered, lastSwap, boughtAt, pure, timer, scanVars, trackerVars>>

\* one second passes
AdvanceTime == Elapse(1000)

\* half a second passes
AdvanceHalfSecond == Elapse(500)

\* globalAlertQueue.enqueue called with one job (a buy of pool p1 for a group
\* of chain bsc)
MaxJobs == 5

EnqueueFrom(gs) ==
    /\ Len(history) < MaxJobs
    /\ \E g \in gs :
         LET job == [ev |-> Len(history) + 1, groupId |-> g,
                     s |-> SettingsOfJob(groupSettings[g]), usdX10 |-> 1100,
                     buyer |-> "eoa", pairAddress |-> "p1"]
             q == Enqueue([jobs |-> jobs, droppedCount |-> droppedCount], job)
         IN  /\ jobs' = q.jobs
             /\ droppedCount' = q.droppedCount
             /\ history' = Append(history, job)
    /\ UNCHANGED <<groupSettings, inFlight, sentTimestamps, sending, lastAlertAt,
                   contractCheckCache, now, nStarted, ran, delivered, lastSwap,
                   boughtAt, pure, timer, scanVars, trackerVars>>

\* a job for either group
EnqueueJob == EnqueueFrom({1, 2})

\* a job for group 1
EnqueueJobOfOne == EnqueueFrom({1})

(***************************************************************************)
(* liveBuyTracker.ts: the registry of chain runtimes and syncListeners.    *)
(*                                                                         *)
(* A ChainRuntime is an object: heap maps object ids to records and        *)
(* runtimes maps a chain to the id registered for it, so that a suspended  *)
(* pass can keep a reference to a runtime the registry has dropped.        *)
(* provider counts the transports the runtime has had; a PairRuntime       *)
(* remembers the provider its listeners were attached to and whether they  *)
(* are still attached.  readyState is the websocket's: 0 connecting,       *)
(* 1 open, 3 closed.  replaced counts the transports the refresh has       *)
(* replaced while they were not closed: nothing closes them or removes     *)
(* the handlers attachWsLifecycle put on them.                             *)
(***************************************************************************)
\* appConfig.chains[chain].rpcUrl.startsWith("wss")
IsWss(chain) == chain = "bsc"

\* what token0() and token1() of a pool contract answer
Pools == {"p1", "p2"}
PoolTokens(addr) ==
    IF addr = "p1" THEN [token0 |-> "t", token1 |-> "w"]
                   ELSE [token0 |-> "a", token1 |-> "b"]

isAddress(addr) == toLowerCase(addr) \in Pools

WS_INACTIVITY_MS == 60000

MapRemove(f, ks) == [k \in DOMAIN f \ ks |-> f[k]]

LowerSet(q) == {toLowerCase(q[i]) : i \in 1..Len(q)}

\* the smallest positive number not in used
FreshId(used) == CHOOSE i \in 1..(Cardinality(used) + 1) : i \notin used

NewRuntime(chain, t) ==
    [chain |-> chain, provider |-> 1, pairs |-> <<>>,
     isWebSocket |-> IsWss(chain), wsDead |-> FALSE,
     lastWsActivity |-> IF IsWss(chain) THEN t ELSE 0,
     readyState |-> IF IsWss(chain) THEN 0 ELSE 1, replaced |-> 0]

attachSwapListener(provider, tokens, targetToken) ==
    [token0 |-> tokens.token0, token1 |-> tokens.token1,
     targetToken |-> toLowerCase(targetToken), provider |-> provider,
     live |-> TRUE]

\* removeAllListeners on every PairRuntime of a runtime
RemoveAllListeners(rt) ==
    [rt EXCEPT !.pairs = [a \in DOMAIN rt.pairs |->
                              [rt.pairs[a] EXCEPT !.live = FALSE]]]

\* the inner loop ending at its first deletion, as if deleting from the map
\* ended the iteration over its keys
DeleteFirstDead(pairs, active) ==
    LET dead == DOMAIN pairs \ active
    IN  IF dead = {} THEN pairs
        ELSE MapRemove(pairs, {CHOOSE a \in dead : TRUE})

\* syncListeners 1), inner loop: every key of the pairs map is visited, the
\* keys deleted during the iteration included, and the entries whose address
\* is not active are detached and deleted
DeleteDead(pairs, active) == MapRemove(pairs, DOMAIN pairs \ active)

\* the dead-pool cleanup comparing addresses without lowercasing them
DeadPoolCleanupCaseSensitive(hp, reg, gs) ==
    LET active == UNION {SeqToSet(gs[g].allPairAddresses) : g \in DOMAIN gs}
        ids    == {reg[c] : c \in DOMAIN reg}
    IN  [i \in DOMAIN hp |->
            IF i \in ids
            THEN [hp[i] EXCEPT !.pairs = MapRemove(@, DOMAIN @ \ active)]
            ELSE hp[i]]

\* syncListeners 1): the pools no group lists are dropped from every runtime
DeadPoolCleanup(hp, reg, gs) ==
    LET active == UNION {LowerSet(gs[g].allPairAddresses) : g \in DOMAIN gs}
        ids    == {reg[c] : c \in DOMAIN reg}
    IN  [i \in DOMAIN hp |->
            IF i \in ids
            THEN [hp[i] EXCEPT !.pairs = DeleteDead(@, active)]
            ELSE hp[i]]

\* the number of entries of the registered runtimes' pairs maps
PairCount(hp, reg) ==
    LET ids == {reg[c] : c \in DOMAIN reg}
        RECURSIVE Sum(_)
        Sum(S) == IF S = {} THEN 0
                  ELSE LET i == CHOOSE x \in S : TRUE
                       IN  Cardinality(DOMAIN hp[i].pairs) + Sum(S \ {i})
    IN  Sum(ids)

\* syncListeners 3), stale check of a websocket runtime
IsStale(rt, t) ==
    \/ rt.readyState # 1
    \/ rt.wsDead
    \/ t - rt.lastWsActivity > WS_INACTIVITY_MS

\* the refresh with wsDead and lastWsActivity reset before the constructor
\* is called
RefreshProviderResetFirst(rt, t, env) ==
    IF ~env.ctorOk THEN [rt EXCEPT !.wsDead = FALSE, !.lastWsActivity = t,
                                   !.readyState = 1]
    ELSE [rt EXCEPT
            !.provider = rt.provider + 1,
            !.readyState = 0,
            !.wsDead = FALSE,
            !.replaced = IF rt.readyState # 3 THEN @ + 1 ELSE @,
            !.lastWsActivity = t,
            !.pairs = [a \in DOMAIN rt.pairs |->
                         IF a \in env.failed
                         THEN [rt.pairs[a] EXCEPT !.live = FALSE]
                         ELSE attachSwapListener(rt.provider + 1,
                                 [token0 |-> rt.pairs[a].token0,
                                  token1 |-> rt.pairs[a].token1],
                                 rt.pairs[a].targetToken)]]

\* syncListeners 3), the refresh: env.ctorOk says whether the new
\* WebSocketProvider could be constructed, env.failed holds the pools whose
\* re-attachment throws
RefreshProvider(rt, t, env) ==
    IF ~env.ctorOk THEN rt
    ELSE [rt EXCEPT
            !.provider = rt.provider + 1,
            !.readyState = 0,
            !.wsDead = FALSE,
            !.replaced = IF rt.readyState # 3 THEN @ + 1 ELSE @,
            !.lastWsActivity = t,
            !.pairs = [a \in DOMAIN rt.pairs |->
                         IF a \in env.failed
                         THEN [rt.pairs[a] EXCEPT !.live = FALSE]
                         ELSE attachSwapListener(rt.provider + 1,
                                 [token0 |-> rt.pairs[a].token0,
                                  token1 |-> rt.pairs[a].token1],
                                 rt.pairs[a].targetToken)]]

\* syncListeners 3), the target token of a pool to attach: that of the first
\* group of the chain that lists it, "" when there is none
TargetTokenOf(gs, chain, addr) ==
    LET ms == {g \in DOMAIN gs : gs[g].chain = chain /\ ListsPool(gs[g], addr)}
    IN  IF ms = {} THEN ""
        ELSE toLowerCase(gs[CHOOSE g \in ms : \A h \in ms : g <= h].tokenAddress)

(***************************************************************************)
(* One execution of syncListeners.  A pass runs without interruption up to *)
(* an await, where it is suspended with its local variables in a record:   *)
(*   pc       "discover" (await getAllValidPairs) or "read" (await of      *)
(*            token0() and token1());                                      *)
(*   g, s, orphan   the group whose pools are being discovered, the        *)
(*            settings object the pass holds, and whether groupSettings    *)
(*            has dropped or replaced that object since;                   *)
(*   order, needed  neededPairsByChain: its chains in insertion order and  *)
(*            the pools of each in insertion order;                        *)
(*   ci, rt, addr, rest, target   the chain being synchronised, its        *)
(*            runtime object, the pool being attached, the pools still to  *)
(*            visit and the target token resolved for the pool.            *)
(* The other fields observe the pass: attached and detached count the      *)
(* subscriptions it attached and removed, stale says that it judged a      *)
(* websocket stale, skipped counts the pools it left out, filled says that *)
(* it filled a group's pool list; alone says that no other pass was in     *)
(* progress during it, quiet that no command touched groupSettings or the  *)
(* registry during it, prevQuiet that the pass that ended before it ran   *)
(* alone and to its end and that no command did so during it or since;     *)
(* before                                                                  *)
(* holds the registered runtimes as they were when the pass began and idle *)
(* the chains whose websocket had then been silent for more than the       *)
(* inactivity window.                                                      *)
(* A segment takes the machine state m = [gs, reg, hp] (groupSettings,     *)
(* runtimes, heap) and env = [t, ctorOk, failed], the clock and the        *)
(* outcomes of what it calls, and gives the new m, the pass record and     *)
(* whether the pass is suspended, done or rejected.                        *)
(***************************************************************************)
NoSettings == [chain |-> "none", tokenAddress |-> "", allPairAddresses |-> <<>>,
               minBuyUsd |-> 0, maxBuyUsd |-> 0,
               hasCooldown |-> FALSE, cooldownSeconds |-> 0]

NewPass(id, loop) ==
    [id |-> id, loop |-> loop, pc |-> "start", g |-> 0, s |-> NoSettings,
     orphan |-> FALSE, order |-> <<>>, needed |-> <<>>, ci |-> 0, rt |-> 0,
     addr |-> "", rest |-> <<>>, target |-> "",
     attached |-> 0, detached |-> 0, stale |-> FALSE, skipped |-> 0,
     filled |-> FALSE, alone |-> TRUE, quiet |-> TRUE, prevQuiet |-> FALSE,
     idle |-> {}, before |-> <<>>]

\* set.add of every lowercased address, keeping insertion order
RECURSIVE AddAll(_, _)
AddAll(set, list) ==
    IF list = <<>> THEN set
    ELSE LET a == toLowerCase(Head(list))
         IN  AddAll(IF a \in SeqToSet(set) THEN set ELSE Append(set, a),
                    Tail(list))

AddNeeded(p, chain, list) ==
    IF chain \in DOMAIN p.needed
    THEN [p EXCEPT !.needed = [@ EXCEPT ![chain] = AddAll(@, list)]]
    ELSE [p EXCEPT !.order = Append(@, chain),
                   !.needed = CachePut(@, chain, AddAll(<<>>, list))]

RECURSIVE NextAttach(_, _, _, _)
RECURSIVE PerChain(_, _, _, _)
RECURSIVE BuildNeeded(_, _, _, _)

\* the attach loop left at the first pool it has to skip
NextAttachLeaveLoop(m, p, rest, env) ==
    IF rest = <<>> THEN PerChain(m, p, p.ci + 1, env)
    ELSE LET addr   == Head(rest)
             chain  == p.order[p.ci]
             target == TargetTokenOf(m.gs, chain, addr)
         IN  IF addr \in DOMAIN m.hp[p.rt].pairs
             THEN NextAttach(m, p, Tail(rest), env)
             ELSE IF ~isAddress(addr) \/ target = ""
             THEN PerChain(m, [p EXCEPT !.skipped = @ + 1], p.ci + 1, env)
             ELSE [m |-> m, status |-> "suspended",
                   p |-> [p EXCEPT !.pc = "read", !.addr = addr,
                                   !.rest = Tail(rest), !.target = target]]

\* 3) "add new listeners for needed pairs", from the pools in rest on
NextAttach(m, p, rest, env) ==
    IF rest = <<>> THEN PerChain(m, p, p.ci + 1, env)
    ELSE LET addr   == Head(rest)
             chain  == p.order[p.ci]
             target == TargetTokenOf(m.gs, chain, addr)
         IN  IF addr \in DOMAIN m.hp[p.rt].pairs
             THEN NextAttach(m, p, Tail(rest), env)
             ELSE IF ~isAddress(addr) \/ target = ""
             THEN NextAttach(m, [p EXCEPT !.skipped = @ + 1], Tail(rest), env)
             ELSE [m |-> m, status |-> "suspended",
                   p |-> [p EXCEPT !.pc = "read", !.addr = addr,
                                   !.rest = Tail(rest), !.target = target]]

\* 3) for the chain at position ci of neededPairsByChain: the runtime is
\* created or, when stale, refreshed; unused pools are dropped
PerChain(m, p, ci, env) ==
    IF ci > Len(p.order)
    THEN [m |-> m, p |-> [p EXCEPT !.pc = "done"], status |-> "done"]
    ELSE
    LET chain  == p.order[ci]
        wanted == SeqToSet(p.needed[chain])
    IN  IF chain \notin DOMAIN m.reg
        THEN IF IsWss(chain) /\ ~env.ctorOk
             THEN [m |-> m, p |-> [p EXCEPT !.pc = "done"], status |-> "rejected"]
             ELSE LET id == FreshId(DOMAIN m.hp)
                  IN  NextAttach(
                        [m EXCEPT !.reg = CachePut(@, chain, id),
                                  !.hp = CachePut(@, id, NewRuntime(chain, env.t))],
                        [p EXCEPT !.ci = ci, !.rt = id],
                        p.needed[chain], env)
        ELSE
        LET id    == m.reg[chain]
            rt0   == m.hp[id]
            stale == rt0.isWebSocket /\ IsStale(rt0, env.t)
            rt1   == IF stale THEN RefreshProvider(rt0, env.t, env) ELSE rt0
            gone  == DOMAIN rt1.pairs \ wanted
            rt2   == [rt1 EXCEPT !.pairs = MapRemove(@, gone)]
        IN  NextAttach([m EXCEPT !.hp = [@ EXCEPT ![id] = rt2]],
                       [p EXCEPT !.ci = ci, !.rt = id,
                                 !.stale = @ \/ stale,
                                 !.detached = @ + Cardinality(gone)],
                       p.needed[chain], env)

\* 2) the groups after group gi, in Map order
BuildNeeded(m, p, gi, env) ==
    LET later == {g \in DOMAIN m.gs : g > gi}
    IN  IF later = {} THEN PerChain(m, p, 1, env)
        ELSE LET g == CHOOSE x \in later : \A y \in later : x <= y
                 settings == m.gs[g]
             IN  IF Len(settings.allPairAddresses) = 0
                 THEN [m |-> m, status |-> "suspended",
                       p |-> [p EXCEPT !.pc = "discover", !.g = g,
                                       !.s = settings, !.orphan = FALSE]]
                 ELSE BuildNeeded(m, AddNeeded(p, settings.chain,
                                               settings.allPairAddresses),
                                  g, env)

\* syncListeners from its first line to its first await
StartPass(m, p, env) ==
    LET hp1 == DeadPoolCleanup(m.hp, m.reg, m.gs)
        n   == PairCount(m.hp, m.reg) - PairCount(hp1, m.reg)
    IN  BuildNeeded([m EXCEPT !.hp = hp1], [p EXCEPT !.detached = n], 0, env)

\* the pass resumes with the answer of getAllValidPairs
ResumeDiscover(m, p, validPairs, env) ==
    LET inMap == ~p.orphan /\ p.g \in DOMAIN m.gs
        cur   == IF inMap THEN m.gs[p.g].allPairAddresses
                          ELSE p.s.allPairAddresses
        list  == IF Len(validPairs) > 0 THEN validPairs ELSE cur
        m1    == IF inMap
                 THEN [m EXCEPT !.gs = [@ EXCEPT ![p.g].allPairAddresses = list]]
                 ELSE m
        p1    == [p EXCEPT !.s = [@ EXCEPT !.allPairAddresses = list],
                           !.filled = @ \/ m1.gs # m.gs]
    IN  IF Len(list) = 0 THEN BuildNeeded(m1, p1, p.g, env)
        ELSE BuildNeeded(m1, AddNeeded(p1, p.s.chain, list), p.g, env)

\* the pass going back to the desired-set computation once a read has settled
ResumeReadRecompute(m, p, readOk, env) == BuildNeeded(m, p, 0, env)

\* the pass resumes with token0 and token1 read, or with the read failed
ResumeRead(m, p, readOk, env) ==
    IF ~readOk
    THEN NextAttach(m, [p EXCEPT !.skipped = @ + 1], p.rest, env)
    ELSE LET rt == m.hp[p.rt]
             pr == attachSwapListener(rt.provider, PoolTokens(p.addr), p.target)
         IN  NextAttach(
               [m EXCEPT !.hp = [@ EXCEPT ![p.rt].pairs = CachePut(@, p.addr, pr)]],
               [p EXCEPT !.attached = @ + 1], p.rest, env)

(***************************************************************************)
(* The tracker's operations.                                               *)
(***************************************************************************)
MaxPasses == 2
MaxStarts == 1
MaxCommands == 1
MaxCloses == 1
MaxHalfMinutes == 2
MaxShutdowns == 1

queueVars == <<jobs, inFlight, sentTimestamps, droppedCount, sending,
               contractCheckCache, history, nStarted, ran, delivered,
               lastSwap, boughtAt>>

Machine == [gs |-> groupSettings, reg |-> runtimes, hp |-> heap]

\* the registered runtimes, by chain
Snap(reg, hp) == [c \in DOMAIN reg |-> hp[reg[c]]]

\* the runtime objects still alive: those the registry or a suspended pass
\* refers to, and those whose provider still holds a swap listener
Collect(hp, reg, ps) ==
    LET refs == {reg[c] : c \in DOMAIN reg} \cup
                {q.rt : q \in {x \in ps : x.pc = "read"}} \cup
                {i \in DOMAIN hp : \E a \in DOMAIN hp[i].pairs :
                                      hp[i].pairs[a].live}
    IN  [i \in DOMAIN hp \cap refs |-> hp[i]]

\* the outcomes of what a segment calls: the provider constructor throws or
\* not, no re-attachment throws or that of pool "p1" does
PassEnvs == [t : {now}, ctorOk : BOOLEAN, failed : {{}, {"p1"}}]

NoPass == [id |-> 0]

Summary(r) ==
    [id |-> r.p.id, loop |-> r.p.loop, rejected |-> r.status = "rejected",
     attached |-> r.p.attached, detached |-> r.p.detached,
     stale |-> r.p.stale, skipped |-> r.p.skipped, filled |-> r.p.filled,
     alone |-> r.p.alone, quiet |-> r.p.quiet, prevQuiet |-> r.p.prevQuiet,
     idle |-> r.p.idle, before |-> r.p.before,
     after |-> Snap(r.m.reg, r.m.hp), gs |-> r.m.gs]

\* the delays given to setTimeout by syncLoop and by clearLiveTrackerCaches
SYNC_DELAY_MS == 15000
RESYNC_DELAY_MS == 2000

\* syncLoop without its try/catch: a rejected pass ends the loop
CommitUncaught(r, others, tm, k) ==
    LET ps == IF r.status = "suspended" THEN others \cup {r.p} ELSE others
        id == FreshId({x.id : x \in tm} \cup {syncTimer})
        rearm == r.status = "done" /\ r.p.loop /\ trackerRunning'
    IN  /\ groupSettings' = r.m.gs
        /\ runtimes' = r.m.reg
        /\ heap' = Collect(r.m.hp, r.m.reg, ps)
        /\ passes' = ps
        /\ timers' = IF rearm
                      THEN tm \cup {[id |-> id, kind |-> "loop",
                                     delay |-> SYNC_DELAY_MS]}
                      ELSE tm
        /\ syncTimer' = IF rearm THEN id ELSE syncTimer
        /\ trk' = IF r.status = "suspended" THEN k
                  ELSE [k EXCEPT !.last = Summary(r),
                                 !.quiet = /\ r.p.quiet /\ r.p.alone
                                           /\ r.status = "done"]

\* the state after a segment of a pass: others are the other suspended
\* passes, tm the timers and k the history before the segment.  When the
\* pass has ended and syncLoop called it, syncLoop arms the next timer.
Commit(r, others, tm, k) ==
    LET ps == IF r.status = "suspended" THEN others \cup {r.p} ELSE others
        id == FreshId({x.id : x \in tm} \cup {syncTimer})
        rearm == r.status # "suspended" /\ r.p.loop /\ trackerRunning'
    IN  /\ groupSettings' = r.m.gs
        /\ runtimes' = r.m.reg
        /\ heap' = Collect(r.m.hp, r.m.reg, ps)
        /\ passes' = ps
        /\ timers' = IF rearm
                      THEN tm \cup {[id |-> id, kind |-> "loop",
                                     delay |-> SYNC_DELAY_MS]}
                      ELSE tm
        /\ syncTimer' = IF rearm THEN id ELSE syncTimer
        /\ trk' = IF r.status = "suspended" THEN k
                  ELSE [k EXCEPT !.last = Summary(r),
                                 !.quiet = /\ r.p.quiet /\ r.p.alone
                                           /\ r.status = "done"]

\* a call of syncListeners
Begin(loop, tm, k, env) ==
    LET id == k.nPasses + 1
        p0 == [NewPass(id, loop) EXCEPT
                  !.alone = passes = {},
                  !.prevQuiet = k.quiet,
                  !.before = Snap(runtimes, heap),
                  !.idle = {c \in DOMAIN runtimes :
                              /\ heap[runtimes[c]].isWebSocket
                              /\ env.t - heap[runtimes[c]].lastWsActivity
                                    > WS_INACTIVITY_MS}]
        others == {[q EXCEPT !.alone = FALSE] : q \in passes}
        k1 == [k EXCEPT !.nPasses = id,
                        !.peak = Max(@, Cardinality(passes) + 1)]
    IN  Commit(StartPass(Machine, p0, env), others, tm, k1)

\* scanNewPoolsLoop up to its first await, for every chain of cs in turn:
\* the controller registered for the chain is aborted, a new one is
\* registered, its signal is found clear and getNewPairsHybrid is called
\* (both requests are issued before it suspends).  pc is where the loop
\* waits: "fetch" for the answer of getNewPairsHybrid, "sleep" for the poll
\* timer, "done" once it has left the while loop; calls counts its calls of
\* getNewPairsHybrid.
RECURSIVE StartScanners(_, _)
StartScanners(sc, cs) ==
    IF cs = {} THEN sc
    ELSE LET chain == CHOOSE c \in cs : TRUE
             id    == FreshId(DOMAIN sc.all)
             old   == IF chain \in DOMAIN sc.reg
                      THEN [sc.all EXCEPT ![sc.reg[chain]].aborted = TRUE]
                      ELSE sc.all
         IN  StartScanners(
               [reg |-> CachePut(sc.reg, chain, id),
                all |-> CachePut(old, id, [chain |-> chain, aborted |-> FALSE,
                                           pc |-> "fetch", calls |-> 1])],
               cs \ {chain})

\* stopAllHybridScanners: every registered controller is aborted and the map
\* is cleared
stopAllHybridScanners(sc) ==
    [reg |-> <<>>,
     all |-> [i \in DOMAIN sc.all |->
                IF i \in {sc.reg[c] : c \in DOMAIN sc.reg}
                THEN [sc.all[i] EXCEPT !.aborted = TRUE]
                ELSE sc.all[i]]]

\* the loop condition evaluated as if the signal were never set
LoopContinuesAlways(s) == TRUE

\* while (!controller.signal.aborted)
LoopContinues(s) == ~s.aborted

\* number of scanner loops started in one run, and of calls of
\* getNewPairsHybrid by one loop
MaxScanners == 3
MaxScans == 2

\* scanNewPoolsLoop(chain) is called
ScanNewPoolsLoop ==
    /\ Cardinality(DOMAIN scanners) < MaxScanners
    /\ \E chain \in Chains :
          LET sc == StartScanners([reg |-> scannerAbortControllers,
                                   all |-> scanners], {chain})
          IN  /\ scannerAbortControllers' = sc.reg
              /\ scanners' = sc.all
    /\ UNCHANGED <<alertVars, pure, trackerVars, timer>>

\* stopAllHybridScanners() is called
StopAllHybridScanners ==
    /\ LET sc == stopAllHybridScanners([reg |-> scannerAbortControllers,
                                        all |-> scanners])
       IN  /\ scannerAbortControllers' = sc.reg
           /\ scanners' = sc.all
    /\ UNCHANGED <<alertVars, pure, trackerVars, timer>>

\* getNewPairsHybrid answers loop i, or throws: the loop logs and starts its
\* poll timer
ScanReturns(i) ==
    /\ i \in DOMAIN scanners
    /\ scanners[i].pc = "fetch"
    /\ scanners' = [scanners EXCEPT ![i].pc = "sleep"]
    /\ UNCHANGED <<alertVars, pure, trackerVars, timer, scannerAbortControllers>>

\* the poll timer of loop i fires: the loop condition is evaluated, and the
\* loop either calls getNewPairsHybrid again or ends
ScanWakes(i) ==
    /\ i \in DOMAIN scanners
    /\ scanners[i].pc = "sleep"
    /\ IF LoopContinues(scanners[i])
       THEN /\ scanners[i].calls < MaxScans
            /\ scanners' = [scanners EXCEPT ![i].pc = "fetch",
                                            ![i].calls = @ + 1]
       ELSE scanners' = [scanners EXCEPT ![i].pc = "done"]
    /\ UNCHANGED <<alertVars, pure, trackerVars, timer, scannerAbortControllers>>

\* startLiveBuyTracker: the flag is set, syncLoop is called and a scanner is
\* started for every chain that has an RPC endpoint
StartLiveBuyTracker ==
    /\ trk.nStarts < MaxStarts
    /\ trk.nPasses < MaxPasses
    /\ trackerRunning' = TRUE
    /\ \E env \in PassEnvs :
          Begin(TRUE, timers, [trk EXCEPT !.nStarts = @ + 1], env)
    /\ LET sc == StartScanners([reg |-> scannerAbortControllers,
                                all |-> scanners], Chains)
       IN  /\ scannerAbortControllers' = sc.reg
           /\ scanners' = sc.all
    /\ UNCHANGED <<queueVars, lastAlertAt, now, pure, timer>>

\* the timer syncLoop armed fires: syncLoop
SyncLoopTimer ==
    \E tm \in timers :
        /\ tm.kind = "loop"
        /\ UNCHANGED <<trackerRunning, queueVars, lastAlertAt, now, pure, timer, scanVars>>
        /\ IF ~trackerRunning
           THEN /\ timers' = timers \ {tm}
                /\ UNCHANGED <<groupSettings, syncTimer, runtimes, heap,
                               passes, trk>>
           ELSE /\ trk.nPasses < MaxPasses
                /\ \E env \in PassEnvs : Begin(TRUE, timers \ {tm}, trk, env)

\* the timer clearLiveTrackerCaches armed fires: syncListeners
ResyncTimer ==
    \E tm \in timers :
        /\ tm.kind = "resync"
        /\ trk.nPasses < MaxPasses
        /\ UNCHANGED <<trackerRunning, queueVars, lastAlertAt, now, pure, timer, scanVars>>
        /\ \E env \in PassEnvs : Begin(FALSE, timers \ {tm}, trk, env)

\* getAllValidPairs answers a suspended pass
DiscoveryReturns ==
    \E p \in passes, validPairs \in Discoverable, env \in PassEnvs :
        /\ p.pc = "discover"
        /\ UNCHANGED <<trackerRunning, queueVars, lastAlertAt, now, pure, timer, scanVars>>
        /\ Commit(ResumeDiscover(Machine, p, validPairs, env),
                  passes \ {p}, timers, trk)

\* the read of token0 and token1 of a suspended pass settles
TokenReadSettles ==
    \E p \in passes, readOk \in BOOLEAN, env \in PassEnvs :
        /\ p.pc = "read"
        /\ UNCHANGED <<trackerRunning, queueVars, lastAlertAt, now, pure, timer, scanVars>>
        /\ Commit(ResumeRead(Machine, p, readOk, env),
                  passes \ {p}, timers, trk)

\* what shutdown and /clearcache do to every registered runtime
TearDown(hp, reg, clearPairs) ==
    LET ids == {reg[c] : c \in DOMAIN reg}
    IN  [i \in DOMAIN hp |->
          IF i \notin ids THEN hp[i]
          ELSE LET rt == RemoveAllListeners(hp[i])
               IN  [rt EXCEPT
                      !.pairs = IF clearPairs THEN <<>> ELSE @,
                      !.readyState = IF rt.isWebSocket THEN 3 ELSE @]]

Disturbed(ps) == {[q EXCEPT !.quiet = FALSE] : q \in ps}

ShutdownLiveBuyTracker ==
    /\ trackerRunning' = FALSE
    /\ timers' = {tm \in timers : tm.id # syncTimer}
    /\ syncTimer' = 0
    /\ runtimes' = <<>>
    /\ passes' = Disturbed(passes)
    /\ heap' = Collect(TearDown(heap, runtimes, FALSE), <<>>, passes')
    /\ LET sc == stopAllHybridScanners([reg |-> scannerAbortControllers,
                                        all |-> scanners])
       IN  /\ scannerAbortControllers' = sc.reg
           /\ scanners' = sc.all
    /\ trk' = [trk EXCEPT !.nShutdowns = @ + 1, !.quiet = FALSE]
    /\ UNCHANGED <<groupSettings, queueVars, lastAlertAt, now, pure>>

\* the signal handler of main, up to the return of shutdownLiveBuyTracker:
\* globalAlertQueue.stop() and then shutdownLiveBuyTracker()
shutdown ==
    /\ trk.nShutdowns < MaxShutdowns
    /\ timer' = FALSE
    /\ ShutdownLiveBuyTracker

ClearLiveTrackerCaches ==
    /\ trk.nCommands < MaxCommands
    /\ runtimes' = <<>>
    /\ passes' = Disturbed(passes)
    /\ heap' = Collect(TearDown(heap, runtimes, TRUE), <<>>, passes')
    /\ lastAlertAt' = <<>>
    /\ timers' = timers \cup
          {[id |-> FreshId({x.id : x \in timers} \cup {syncTimer}),
            kind |-> "resync", delay |-> RESYNC_DELAY_MS]}
    /\ trk' = [trk EXCEPT !.nCommands = @ + 1, !.nClears = @ + 1,
                        !.quiet = FALSE]
    /\ UNCHANGED <<trackerRunning, syncTimer, groupSettings, queueVars, now, pure, timer, scanVars>>

\* the websocket of a registered runtime opens
WsOpens ==
    \E c \in DOMAIN runtimes :
        /\ heap[runtimes[c]].isWebSocket
        /\ heap[runtimes[c]].readyState = 0
        /\ heap' = [heap EXCEPT ![runtimes[c]].readyState = 1]
        /\ UNCHANGED <<alertVars, pure, timer, scanVars, trackerRunning, syncTimer, timers,
                       runtimes, passes, trk>>

\* it closes or fails: the handlers of attachWsLifecycle set wsDead
WsCloses ==
    \E c \in DOMAIN runtimes :
        /\ trk.nCloses < MaxCloses
        /\ heap[runtimes[c]].isWebSocket
        /\ heap[runtimes[c]].readyState # 3
        /\ heap' = [heap EXCEPT ![runtimes[c]].readyState = 3,
                                ![runtimes[c]].wsDead = TRUE]
        /\ trk' = [trk EXCEPT !.nCloses = @ + 1]
        /\ UNCHANGED <<alertVars, pure, timer, scanVars, trackerRunning, syncTimer, timers,
                       runtimes, passes>>

\* a transport the refresh has replaced closes or fails: the handlers
\* attachWsLifecycle put on it hold the runtime, not the transport
ReplacedWsCloses ==
    \E c \in DOMAIN runtimes :
        /\ trk.nCloses < MaxCloses
        /\ heap[runtimes[c]].replaced > 0
        /\ heap' = [heap EXCEPT ![runtimes[c]].replaced = @ - 1,
                                ![runtimes[c]].wsDead = TRUE]
        /\ trk' = [trk EXCEPT !.nCloses = @ + 1]
        /\ UNCHANGED <<alertVars, pure, timer, scanVars, trackerRunning, syncTimer, timers,
                       runtimes, passes>>

\* a "block" notification arrives on an open websocket
BlockEvent ==
    \E c \in DOMAIN runtimes :
        /\ heap[runtimes[c]].isWebSocket
        /\ heap[runtimes[c]].readyState = 1
        /\ heap[runtimes[c]].lastWsActivity # now
        /\ heap' = [heap EXCEPT ![runtimes[c]].lastWsActivity = now]
        /\ UNCHANGED <<alertVars, pure, timer, scanVars, trackerRunning, syncTimer, timers,
                       runtimes, passes, trk>>

\* half a minute (and a little more) passes
AdvanceHalfMinute ==
    /\ now < StartTime + MaxHalfMinutes * 30500
    /\ now' = now + 30500
    /\ UNCHANGED <<groupSettings, queueVars, lastAlertAt, pure, timer, scanVars, trackerVars>>

\* a pass suspended in getAllValidPairs for group g holds a settings object
\* that groupSettings no longer holds
Orphaned(ps, g) ==
    {IF q.pc = "discover" /\ q.g = g THEN [q EXCEPT !.orphan = TRUE] ELSE q
       : q \in Disturbed(ps)}

\* /stop in a group
handleStopCommand ==
    \E g \in DOMAIN groupSettings :
        /\ trk.nCommands < MaxCommands
        /\ groupSettings' = MapRemove(groupSettings, {g})
        /\ passes' = Orphaned(passes, g)
        /\ trk' = [trk EXCEPT !.nCommands = @ + 1, !.quiet = FALSE]
        /\ UNCHANGED <<queueVars, lastAlertAt, now, pure, timer, scanVars, trackerRunning,
                       syncTimer, timers, runtimes, heap>>

\* the settings the setup wizard ends with when no pool was found for the
\* token and the user typed a pool address
WizardSettings ==
    { [chain |-> "bsc", tokenAddress |-> "t", allPairAddresses |-> <<"p2">>,
       minBuyUsd |-> 10, maxBuyUsd |-> 0,
       hasCooldown |-> TRUE, cooldownSeconds |-> 3] }

\* the last step of the setup wizard: groupSettings.set.  Groups are
\* numbered in the order of their first setup.
WizardTgGroupStep ==
    \E g \in Groups, s \in WizardSettings :
        /\ trk.nCommands < MaxCommands
        /\ g \in DOMAIN groupSettings \/ \A h \in DOMAIN groupSettings : h < g
        /\ groupSettings' = CachePut(groupSettings, g, s)
        /\ passes' = Orphaned(passes, g)
        /\ trk' = [trk EXCEPT !.nCommands = @ + 1, !.quiet = FALSE]
        /\ UNCHANGED <<queueVars, lastAlertAt, now, pure, timer, scanVars, trackerRunning,
                       syncTimer, timers, runtimes, heap>>

\* the tracker before startLiveBuyTracker
TrackerIdle ==
    /\ trackerRunning = FALSE
    /\ syncTimer = 0
    /\ timers = {}
    /\ runtimes = <<>>
    /\ heap = <<>>
    /\ passes = {}
    /\ scannerAbortControllers = <<>>
    /\ scanners = <<>>
    /\ trk = [nPasses |-> 0, nStarts |-> 0, nCommands |-> 0, nClears |-> 0,
              nCloses |-> 0, nShutdowns |-> 0, peak |-> 0, quiet |-> FALSE,
              last |-> NoPass]

\* the settings loaded from disk when the tracker is started
TrackerSettings ==
    [g \in {1, 2} |->
        IF g = 1
        THEN [chain |-> "bsc", tokenAddress |-> "t",
              allPairAddresses |-> <<"P1">>,
              minBuyUsd |-> 100, maxBuyUsd |-> 0,
              hasCooldown |-> FALSE, cooldownSeconds |-> 0]
        ELSE [chain |-> "monad", tokenAddress |-> "t",
              allPairAddresses |-> <<>>,
              minBuyUsd |-> 0, maxBuyUsd |-> 120,
              hasCooldown |-> TRUE, cooldownSeconds |-> 2]]

AlertIdle ==
    /\ jobs = <<>>
    /\ inFlight = 0
    /\ sentTimestamps = <<>>
    /\ droppedCount = 0
    /\ timer = TRUE
    /\ sending = {}
    /\ lastAlertAt = <<>>
    /\ contractCheckCache = <<>>
    /\ now = StartTime
    /\ history = <<>>
    /\ nStarted = 0
    /\ ran = {}
    /\ delivered = {}
    /\ lastSwap = NoSwap
    /\ boughtAt = <<>>

AlertInit == groupSettings = InitialSettings /\ AlertIdle

\* the input and the result held by the harness of the pure functions
NoOut == [passed |-> FALSE, amount0In |-> 0, amount1In |-> 0,
          amount0Out |-> 0, amount1Out |-> 0, accepted |-> FALSE,
          baseIn |-> 0, tokenOut |-> 0, enq |-> 0, decimals |-> 0,
          isNull |-> TRUE, value |-> 0,
          called |-> FALSE, list |-> <<>>, dirty |-> FALSE]

NoReport == [has |-> FALSE, symbol |-> "", decimals |-> 0]
NoRead == [ok |-> FALSE, value |-> 0]

NoAmounts == [amount0In |-> 0, amount1In |-> 0, amount0Out |-> 0, amount1Out |-> 0]

NoInput == [op |-> "input", kind |-> "none", target |-> "t", a0 |-> 0, a1 |-> 0,
            am |-> NoAmounts, reported |-> NoReport, onChain |-> NoRead,
            usdX10 |-> 0, hasRuntime |-> TRUE, rpcOk |-> TRUE, balance |-> 0,
            buy |-> 0, api |-> <<>>, apiOk |-> TRUE, configured |-> TRUE,
            out |-> NoOut]

PureIdle == NoInput

Init == AlertInit /\ pure = PureIdle /\ TrackerIdle

Next ==
    \/ V2Swap \/ V3Swap \/ V4Swap
    \/ Tick \/ SendSettles
    \/ ClearLiveTrackerCaches
    \/ AdvanceTime

Spec == Init /\ [][Next]_vars

\* the dispatch queue alone: jobs are enqueued one by one, ticks come at any
\* time, run() has every outcome
NextQueue ==
    \/ EnqueueJob
    \/ TickAny \/ SendSettles
    \/ AdvanceHalfSecond

SpecQueue == Init /\ [][NextQueue]_vars

\* the new-pool scanners alone: loops are started and stopped at any time,
\* every call of getNewPairsHybrid settles and every poll timer fires
NextScanner ==
    \/ ScanNewPoolsLoop
    \/ StopAllHybridScanners
    \/ \E i \in 1..MaxScanners : ScanReturns(i)
    \/ \E i \in 1..MaxScanners : ScanWakes(i)

SpecScanner ==
    /\ Init /\ [][NextScanner]_vars
    /\ \A i \in 1..MaxScanners : WF_vars(ScanReturns(i)) /\ WF_vars(ScanWakes(i))

\* the dispatch queue with its scheduling: the interval timer keeps calling
\* tick(), the promise of every started job settles, and time passes
NextQueueFair ==
    \/ EnqueueJobOfOne
    \/ TickAny \/ SendSettles
    \/ AdvanceTime

SpecQueueFair ==
    /\ Init /\ [][NextQueueFair]_vars
    /\ WF_vars(TickAny)
    /\ WF_vars(SendSettles)
    /\ WF_vars(AdvanceTime)

\* the alert pipeline up to the shutdown of the process
NextExit ==
    \/ V2Swap
    \/ Tick \/ SendSettles
    \/ AdvanceTime
    \/ shutdown

SpecExit == Init /\ [][NextExit]_vars

\* the swap handler alone, with every outcome of the calls it awaits
NextSwap == V2SwapAny \/ V3SwapAny \/ V4SwapAny

SpecSwap == Init /\ [][NextSwap]_vars

\* the alert pipeline with /stop
NextStop == V2Swap \/ Tick \/ SendSettles \/ handleStopCommand

SpecStop == Init /\ [][NextStop]_vars

(***************************************************************************)
(* The classifier and the position-increase guard on their own: the state  *)
(* holds one input, and an action applies the code to it.                  *)
(***************************************************************************)
PrevBalances == {0, 1, 1000}
BuyAmounts   == {1, 1000, 2000000}
GuardUsd     == {990, 1000, 1500}

ClassifierInputs ==
    {[NoInput EXCEPT !.kind = "deltas", !.target = tg, !.a0 = a0, !.a1 = a1] :
        tg \in {"t", "w"}, a0 \in Deltas, a1 \in Deltas}

\* two-reserve Swap events of pool "p1" (tokens "t" and "w") while the first
\* group that lists the pool tracks token "t", "w" or a token the pool does
\* not hold
ReserveAmounts == {0, 3}
ReserveInputs ==
    {[NoInput EXCEPT !.kind = "reserves", !.target = tg, !.am = am] :
        tg \in {"t", "w", "x"},
        am \in [amount0In : ReserveAmounts, amount1In : ReserveAmounts,
                amount0Out : ReserveAmounts, amount1Out : ReserveAmounts]}

\* what the provider reports of the spent token and what decimals() answers
DecimalsInputs ==
    {[NoInput EXCEPT !.kind = "decimals", !.reported = rp, !.onChain = oc] :
        rp \in [has : BOOLEAN, symbol : {"", "WBNB", "usdt", "DAI"},
                decimals : {6, 9, 18}],
        oc \in [ok : BOOLEAN, value : {6, 9, 18, 40}]}

GuardInputs ==
    {[NoInput EXCEPT !.kind = "buy", !.usdX10 = u, !.hasRuntime = h,
                     !.rpcOk = ok, !.balance = b, !.buy = a] :
        u \in GuardUsd, h \in BOOLEAN, ok \in BOOLEAN, b \in PrevBalances,
        a \in BuyAmounts}

\* answers of the discovery API for token "t": entry i has address i
ApiEntries ==
    [chainId : {"bsc", "56", "monad"}, tokenMatch : {TRUE},
     liquidityUsd : {5, 10, 20}]
       \cup [chainId : {"bsc"}, tokenMatch : {FALSE}, liquidityUsd : {20}]

ApiAnswers ==
    UNION {[1..n -> ApiEntries] : n \in 0..MaxApiPairs}

DiscoveryInputs ==
    {[NoInput EXCEPT !.kind = "discovery", !.api = a, !.apiOk = c[1],
                     !.configured = c[2]] :
        a \in ApiAnswers,
        c \in {<<TRUE, TRUE>>, <<FALSE, TRUE>>, <<TRUE, FALSE>>}}

\* a group of chain bsc with an empty pool list
EmptyGroup == [chain |-> "bsc", tokenAddress |-> "t", allPairAddresses |-> <<>>]

\* a signed-delta event goes through the V3 or V4 callback and, when the
\* callback passes it on, through the amount guard of handleSwap
DeltaEvent(shape) ==
    /\ pure.op = "input" /\ pure.kind = "deltas"
    /\ LET c == ClassifyDelta(SubTokens.token0, pure.target, pure.a0, pure.a1)
           am == [amount0In |-> c.amount0In, amount1In |-> c.amount1In,
                  amount0Out |-> c.amount0Out, amount1Out |-> c.amount1Out]
       IN  pure' = [pure EXCEPT
                      !.op = shape,
                      !.out = [NoOut EXCEPT
                                 !.passed = c.passed,
                                 !.amount0In = c.amount0In,
                                 !.amount1In = c.amount1In,
                                 !.amount0Out = c.amount0Out,
                                 !.amount1Out = c.amount1Out,
                                 !.accepted = c.passed /\
                                    SwapSides(SubTokens, pure.target, am).accepted]]
    /\ UNCHANGED <<alertVars, trackerVars, timer, scanVars>>

\* a two-reserve event goes through the V2 callback and handleSwap, every
\* awaited call succeeding and the recipient being an account
V2Event ==
    /\ pure.op = "input" /\ pure.kind = "reserves"
    /\ \E e \in QuietOutcomes :
         LET gs == [g \in DOMAIN groupSettings |->
                      [groupSettings[g] EXCEPT !.tokenAddress = pure.target]]
             r  == handleSwap(gs, contractCheckCache, 1, "bsc", "p1",
                              SubTokens, pure.am, "eoa", e)
             sides == SwapSides(SubTokens, pure.target, pure.am)
         IN  pure' = [pure EXCEPT !.op = "v2",
                                  !.out = [NoOut EXCEPT
                                             !.baseIn = sides.baseIn,
                                             !.tokenOut = sides.tokenOut,
                                             !.accepted = sides.accepted,
                                             !.enq = Len(r.out)]]
    /\ UNCHANGED <<alertVars, trackerVars, timer, scanVars>>

V3Event == DeltaEvent("v3")
V4Event == DeltaEvent("v4")

\* handleSwap resolves the decimals of the spent token
DecimalsStep ==
    /\ pure.op = "input" /\ pure.kind = "decimals"
    /\ pure' = [pure EXCEPT
                  !.op = "decimals",
                  !.out = [NoOut EXCEPT
                             !.decimals = baseTokenDecimals(pure.reported,
                                                            pure.onChain)]]
    /\ UNCHANGED <<alertVars, trackerVars, timer, scanVars>>

\* handleSwap computes positionIncrease for an enriched buy
PositionStep ==
    /\ pure.op = "input" /\ pure.kind = "buy"
    /\ LET prev == getPreviousBalance(pure.hasRuntime, pure.rpcOk, pure.balance)
           r == PositionIncrease(pure.usdX10, prev, pure.buy)
       IN  pure' = [pure EXCEPT !.op = "position",
                                !.out = [NoOut EXCEPT !.isNull = r.isNull,
                                                      !.value = r.value]]
    /\ UNCHANGED <<alertVars, trackerVars, timer, scanVars>>

\* syncListeners reaches a group with an empty pool list
DiscoverStep ==
    /\ pure.op = "input" /\ pure.kind = "discovery"
    /\ LET api == [i \in 1..Len(pure.api) |->
                    [chainId |-> pure.api[i].chainId,
                     tokenMatch |-> pure.api[i].tokenMatch,
                     liquidityUsd |-> pure.api[i].liquidityUsd,
                     address |-> i]]
           r == AutoFill(EmptyGroup, pure.configured, api, pure.apiOk)
       IN  pure' = [pure EXCEPT !.op = "discover",
                                !.out = [NoOut EXCEPT !.called = r.called,
                                                      !.list = r.list,
                                                      !.dirty = r.dirty]]
    /\ UNCHANGED <<alertVars, trackerVars, timer, scanVars>>

PureInit ==
    /\ AlertInit
    /\ TrackerIdle
    /\ pure \in ClassifierInputs \cup ReserveInputs \cup DecimalsInputs
                 \cup GuardInputs \cup DiscoveryInputs

NextPure ==
    \/ V2Event \/ V3Event \/ V4Event
    \/ DecimalsStep \/ PositionStep \/ DiscoverStep

SpecPure == PureInit /\ [][NextPure]_vars

\* the tracker: reconciliation passes, their timers, the commands and the
\* websocket events
TrackerInit ==
    /\ groupSettings = TrackerSettings
    /\ AlertIdle
    /\ pure = PureIdle
    /\ TrackerIdle

NextTracker ==
    \/ StartLiveBuyTracker
    \/ SyncLoopTimer
    \/ ResyncTimer
    \/ DiscoveryReturns
    \/ TokenReadSettles
    \/ ClearLiveTrackerCaches
    \/ WsOpens
    \/ WsCloses
    \/ BlockEvent
    \/ AdvanceHalfMinute
    \/ handleStopCommand
    \/ WizardTgGroupStep

SpecTracker == TrackerInit /\ [][NextTracker]_vars

\* the loop and the websockets alone, with the events of the transports a
\* refresh has replaced
NextTransport ==
    \/ StartLiveBuyTracker
    \/ SyncLoopTimer
    \/ DiscoveryReturns
    \/ TokenReadSettles
    \/ WsOpens
    \/ WsCloses
    \/ ReplacedWsCloses
    \/ BlockEvent
    \/ AdvanceHalfMinute

SpecTransport == TrackerInit /\ [][NextTransport]_vars

\* the loop and /stop, started with a group that lists two pools of its chain
CleanupSettings ==
    [TrackerSettings EXCEPT ![1].allPairAddresses = <<"P1", "p2">>]

CleanupInit ==
    /\ groupSettings = CleanupSettings
    /\ AlertIdle
    /\ pure = PureIdle
    /\ TrackerIdle

NextCleanup ==
    \/ StartLiveBuyTracker
    \/ SyncLoopTimer
    \/ DiscoveryReturns
    \/ TokenReadSettles
    \/ handleStopCommand

SpecCleanup == CleanupInit /\ [][NextCleanup]_vars

\* the loop and /stop, started with a group whose list holds a string that is
\* no address, followed by two pools
SkipSettings ==
    [TrackerSettings EXCEPT ![1].allPairAddresses = <<"zz", "P1", "p2">>]

SkipInit ==
    /\ groupSettings = SkipSettings
    /\ AlertIdle
    /\ pure = PureIdle
    /\ TrackerIdle

NextSkip ==
    \/ StartLiveBuyTracker
    \/ SyncLoopTimer
    \/ DiscoveryReturns
    \/ TokenReadSettles
    \/ handleStopCommand

SpecSkip == SkipInit /\ [][NextSkip]_vars

\* the loop and /stop, started with two groups of one chain that list the
\* same pool and track its two tokens
FramingSettings ==
    [g \in {1, 2, 3} |->
        CASE g = 1 -> TrackerSettings[1]
          [] g = 2 -> [TrackerSettings[1] EXCEPT !.tokenAddress = "W",
                                                  !.allPairAddresses = <<"p1">>]
          [] OTHER -> TrackerSettings[2]]

FramingInit ==
    /\ groupSettings = FramingSettings
    /\ AlertIdle
    /\ pure = PureIdle
    /\ TrackerIdle

NextFraming ==
    \/ StartLiveBuyTracker
    \/ SyncLoopTimer
    \/ DiscoveryReturns
    \/ TokenReadSettles
    \/ handleStopCommand

SpecFraming == FramingInit /\ [][NextFraming]_vars

\* the tracker from its start to the shutdown of the process: the passes,
\* their timers, /clearcache and the signal handler
NextShutdown ==
    \/ StartLiveBuyTracker
    \/ SyncLoopTimer
    \/ ResyncTimer
    \/ DiscoveryReturns
    \/ TokenReadSettles
    \/ ClearLiveTrackerCaches
    \/ WsOpens
    \/ shutdown

SpecShutdown == TrackerInit /\ [][NextShutdown]_vars

(***************************************************************************)
(* Claims about the alert pipeline.                                        *)
(***************************************************************************)
CdMs(s) == (IF s.hasCooldown THEN s.cooldownSeconds ELSE 3) * 1000

\* a started job whose USD value is inside its group's [min, max]
Qualifies(r) ==
    /\ MathRound(r.usdX10) >= r.s.minBuyUsd
    /\ r.s.maxBuyUsd = 0 \/ MathRound(r.usdX10) <= r.s.maxBuyUsd

SameKey(r1, r2) ==
    r1.groupId = r2.groupId /\ toLowerCase(r1.pairAddress) = toLowerCase(r2.pairAddress)

\* no /clearcache emptied the cooldown map between the two runs
SameEpoch(r1, r2) == r1.epoch = r2.epoch

\* the run of the job has ended (its send, if any, has settled)
Settled(r) == \A j \in sending : ~(j.ev = r.ev /\ j.groupId = r.groupId)

\* C1: the queue never holds more than MAX_QUEUE_SIZE jobs; jobs only leave
\* it at the head, by a start or by an overflow drop, so the queue is always
\* the most recent part of what was enqueued, in enqueue order, and every
\* enqueued job is queued, started or counted in droppedCount; while no tick
\* has started a job, droppedCount is exactly the number of jobs enqueued
\* beyond the capacity (1 after capacity + 1 enqueues).
C1_QueueCap ==
    /\ Len(jobs) <= MAX_QUEUE_SIZE
    /\ Len(history) = Len(jobs) + nStarted + droppedCount
    /\ jobs = SubSeq(history, Len(history) - Len(jobs) + 1, Len(history))
    /\ nStarted = 0 =>
          /\ droppedCount = Max(0, Len(history) - MAX_QUEUE_SIZE)
          /\ Len(jobs) = Min(Len(history), MAX_QUEUE_SIZE)

C1_Witness ==
    /\ nStarted = 0
    /\ Len(history) = MAX_QUEUE_SIZE + 1
    /\ droppedCount = 1
    /\ jobs = Tail(history)

C9_AsClaimed ==
    \A i \in 1..Len(history) :
        MathRound(history[i].usdX10) >= history[i].s.minBuyUsd

\* C10 as claimed: an event whose recipient has contract code enqueues no
\* job on a chain other than monad, and none on monad when tx.from is a
\* contract, the transaction is missing or getTransaction fails.
C10_AsClaimed ==
    (lastSwap.handled /\ HasCode(lastSwap.to)) =>
        /\ lastSwap.chain # "monad" => lastSwap.enq = 0
        /\ (lastSwap.chain = "monad" /\ lastSwap.tx \in {"ctr2", "missing", "fail"})
              => lastSwap.enq = 0

\* C21: no promise rejection escapes a swap event callback: a failure
\* raised in handleSwap, such as a malformed recipient address, is caught at
\* the per-event boundary.
C21_AsClaimed == ~lastSwap.unhandled

C29_AsClaimed ==
    [][\A g \in DOMAIN groupSettings \cap DOMAIN groupSettings' :
          groupSettings'[g].allPairAddresses # groupSettings[g].allPairAddresses
             => groupSettings[g].allPairAddresses = <<>>]_vars

\* C30: no job goes on to send to a group that groupSettings no longer
\* holds.
C30_AsClaimed ==
    [][\A r \in ran' \ ran :
          r.res = "sent" => r.groupId \in DOMAIN groupSettings]_vars

C11_AsClaimed ==
    ( /\ lastSwap.handled /\ lastSwap.buy
      /\ lastSwap.chain = "monad" /\ HasCode(lastSwap.to)
      /\ lastSwap.hasRuntime /\ lastSwap.tx = "eoa" )
    => /\ lastSwap.buyer = "eoa"
       /\ lastSwap.enq = lastSwap.related
       /\ lastSwap.enq > 0

(***************************************************************************)
(* Claims about the dispatch queue.                                        *)
(***************************************************************************)
\* C13: inFlight stays within 0..maxInFlight and is the number of started
\* jobs whose promise has not settled; a step starts at most one job, and
\* starts it only when inFlight is below maxInFlight.
C13_InFlight ==
    /\ [](/\ 0 <= inFlight /\ inFlight <= maxInFlight
          /\ inFlight = Cardinality(sending))
    /\ [][\/ nStarted' = nStarted
          \/ nStarted' = nStarted + 1 /\ inFlight < maxInFlight]_vars

C13_Witness ==
    /\ inFlight = maxInFlight
    /\ Cardinality(sending) = maxInFlight
    /\ jobs # <<>>
    /\ Len(DropOld(sentTimestamps, now)) < maxPerSecond

\* the jobs started from time t to time t + 1000
StartedInWindow(t) == {r \in ran : t <= r.at /\ r.at <= t + 1000}

\* C14: no more than maxPerSecond jobs are started within any window of one
\* second, and a step starts a job only when fewer than maxPerSecond of the
\* recorded start timestamps are at most 1000 ms old.
C14_RateCap ==
    /\ [](\A r \in ran : Cardinality(StartedInWindow(r.at)) <= maxPerSecond)
    /\ [][nStarted' # nStarted =>
             Cardinality({i \in 1..Len(sentTimestamps) :
                            now - sentTimestamps[i] <= 1000}) < maxPerSecond]_vars

C14_Witness ==
    /\ jobs # <<>>
    /\ inFlight < maxInFlight
    /\ \E r \in ran : /\ r.at < now /\ now <= r.at + 1000
                        /\ Cardinality(StartedInWindow(r.at)) = maxPerSecond

\* the run of the job enqueued as number i, if it was started
RunOf(i) ==
    {r \in ran : r.ev = history[i].ev /\ r.groupId = history[i].groupId}

\* the job enqueued as number i was started, is queued, or was dropped
Started(i) == RunOf(i) # {}
Queued(i)  == \E k \in 1..Len(jobs) : jobs[k] = history[i]
Dropped(i) == ~Started(i) /\ ~Queued(i)

\* C15: of two jobs that were not dropped by overflow, the one enqueued first
\* is started first.
C15_Fifo ==
    \A i \in 1..Len(history), j \in 1..Len(history) :
        (i < j /\ Started(j) /\ ~Dropped(i)) =>
            /\ Started(i)
            /\ \A ri \in RunOf(i), rj \in RunOf(j) : ri.seq < rj.seq

C15_Witness ==
    /\ droppedCount > 0
    /\ \E i \in 1..Len(history), j \in 1..Len(history) :
          /\ i < j /\ Started(i) /\ Started(j)
          /\ \E ri \in RunOf(i), rj \in RunOf(j) : ri.at < rj.at
    /\ \E i \in 1..Len(history) : Queued(i)

\* the started jobs that failed: the formatting code threw, or the send was
\* started, has settled and delivered nothing
Failed ==
    {r \in ran : \/ r.threw
                 \/ /\ r.res = "sent" /\ Settled(r)
                    /\ <<r.ev, r.groupId>> \notin delivered}

\* C16: a job that throws leaves inFlight as it was before it started, and
\* the settling of a started job, failed or not, takes one off inFlight;
\* neither touches the queued jobs beyond the job started, nor the rate
\* window, nor the cooldown stamps, so that what is queued is dispatched as
\* after a success.
C16_FailureIsolated ==
    /\ [](inFlight = Cardinality(sending) /\ inFlight >= 0)
    /\ [][/\ (\E r \in ran' \ ran : r.threw) =>
               (inFlight' = inFlight /\ jobs' = Tail(jobs))
          /\ (sending' # sending /\ sending' \subseteq sending) =>
               /\ inFlight' = inFlight - 1
               /\ <<jobs, sentTimestamps, droppedCount, lastAlertAt, nStarted>>'
                     = <<jobs, sentTimestamps, droppedCount, lastAlertAt, nStarted>>
         ]_vars

C16_Witness ==
    /\ inFlight = 0 /\ jobs = <<>>
    /\ \E f \in Failed, g \in Failed, r \in ran :
          /\ f.threw /\ ~g.threw
          /\ f.seq < r.seq /\ g.seq < r.seq
          /\ <<r.ev, r.groupId>> \in delivered

(***************************************************************************)
(* Claims about the reconciliation loop.                                   *)
(***************************************************************************)
\* the pools the groups of a chain list, lowercased
Desired(gs, chain) ==
    UNION {LowerSet(gs[g].allPairAddresses) :
             g \in {h \in DOMAIN gs : gs[h].chain = chain}}

PairsOf(snap) == [c \in DOMAIN snap |-> snap[c].pairs]

\* every pool a group lists is subscribed on the group's chain
AllSubscribed(gs, snap) ==
    \A c \in Chains :
        Desired(gs, c) \subseteq
            (IF c \in DOMAIN snap THEN DOMAIN snap[c].pairs ELSE {})

\* the pass that ended last ran right after another pass, each of the two
\* alone (no other pass in progress during it), with no command and no
\* change of groupSettings from the start of the first to the end of the
\* second, and it judged no websocket stale
Succession ==
    /\ trk.last.id # 0
    /\ trk.last.prevQuiet /\ trk.last.quiet /\ trk.last.alone
    /\ ~trk.last.filled /\ ~trk.last.stale

NoChurn ==
    /\ trk.last.attached = 0
    /\ trk.last.detached = 0
    /\ PairsOf(trk.last.after) = PairsOf(trk.last.before)
    /\ \A c \in DOMAIN trk.last.after :
          \A a \in DOMAIN trk.last.after[c].pairs : toLowerCase(a) = a

\* C2: at most one execution of syncListeners is in progress at any time
\* (peak is the largest number of passes that were in progress together).
C2_AsClaimed == trk.peak <= 1

\* C3, as claimed: the second of two passes run in succession with unchanged
\* groupSettings and no stale connection attaches nothing, detaches nothing
\* and leaves every pairs map as the first pass left it.
C3_AsClaimed == Succession => NoChurn

\* C3, amended: the same, when every pool a group lists was subscribed on
\* the group's chain when the second pass began; a pool the first pass had
\* to leave out (its token read failed) is attached by the second.
C3_Idempotent ==
    (Succession /\ AllSubscribed(trk.last.gs, trk.last.before)) => NoChurn

C3_Witness ==
    /\ Succession
    /\ AllSubscribed(trk.last.gs, trk.last.before)
    /\ NoChurn
    /\ \E c \in DOMAIN trk.last.before :
          /\ "p1" \in DOMAIN trk.last.before[c].pairs
          /\ trk.last.before[c].pairs["p1"].live

\* C23: after a stale-connection refresh, wsDead of a connection becomes
\* true only through a close or error event of the transport the connection
\* currently references.
C23_AsClaimed ==
    [][\A c \in DOMAIN runtimes :
          LET i == runtimes[c]
          IN  (i \in DOMAIN heap' /\ ~heap[i].wsDead /\ heap'[i].wsDead)
                => heap[i].readyState # 3 /\ heap'[i].readyState = 3]_vars

\* C25: when a pass has completed (alone, with no command during it), every
\* pool subscribed on a chain of the registry is listed, lowercased, by a
\* group of that same chain.
C25_AsClaimed ==
    LET l == trk.last
    IN  (l.id # 0 /\ l.quiet /\ l.alone /\ ~l.rejected) =>
          \A c \in DOMAIN l.after :
              DOMAIN l.after[c].pairs \subseteq Desired(l.gs, c)

C27_AsClaimed ==
    \A c \in DOMAIN runtimes :
        LET rt == heap[runtimes[c]]
        IN  rt.provider > 1 =>
               \A a \in DOMAIN rt.pairs :
                   rt.pairs[a].live /\ rt.pairs[a].provider = rt.provider

\* C28: no task observes a connection whose transport is the new one while
\* an entry of its pairs map is still bound to the transport it replaced.
C28_AsClaimed ==
    \A i \in DOMAIN heap :
        \A a \in DOMAIN heap[i].pairs :
            heap[i].pairs[a].provider >= heap[i].provider

C32_Missing ==
    {x \in Chains \X {"zz", "p1", "p2"} :
        /\ x[2] \in Desired(trk.last.gs, x[1])
        /\ ~(/\ x[1] \in DOMAIN trk.last.after
              /\ x[2] \in DOMAIN trk.last.after[x[1]].pairs)}

\* C32: a pool that is skipped (malformed address, no matching group, failed
\* token read) gets no subscription, and skipping it does not end the pass:
\* only a well-formed pool whose read was awaited enters a pairs map, and
\* when a pass has ended (alone, with no command during it) the desired
\* pools it left unsubscribed are exactly as many as it skipped, so every
\* other pool was processed, the pools skipped by the pass before it
\* included.
C32_SkipOne ==
    [][/\ \A i \in DOMAIN heap \cap DOMAIN heap' :
             \A a \in DOMAIN heap'[i].pairs \ DOMAIN heap[i].pairs :
                /\ isAddress(a)
                /\ \E p \in passes : /\ p.pc = "read" /\ p.rt = i
                                       /\ p.addr = a /\ p.target # ""
       /\ (/\ trk'.last.id # 0 /\ trk'.last.quiet /\ trk'.last.alone
            /\ ~trk'.last.rejected)
             => Cardinality(C32_Missing') = trk'.last.skipped]_vars

\* a pass has ended that skipped the malformed address and a pool whose read
\* failed and attached another pool, after a pass that had skipped a pool
\* which this one attached
C32_Witness ==
    /\ trk.last.id = 2 /\ trk.last.quiet /\ trk.last.alone /\ ~trk.last.rejected
    /\ trk.last.skipped >= 2 /\ trk.last.attached >= 1
    /\ <<"bsc", "zz">> \in C32_Missing
    /\ Cardinality(C32_Missing) = 2
    /\ "bsc" \in DOMAIN trk.last.before
    /\ DOMAIN trk.last.after["bsc"].pairs # DOMAIN trk.last.before["bsc"].pairs

\* a pass has judged a websocket stale in this step
C33_JudgedStale ==
    \/ \E q \in passes' : q.stale /\ \A p \in passes : p.id = q.id => ~p.stale
    \/ /\ trk'.last.id # trk.last.id /\ trk'.last.stale
       /\ \A p \in passes : p.id = trk'.last.id => ~p.stale

\* C33: when the constructor of the replacement transport throws during a
\* refresh (the connection was judged stale and its transport is the same
\* after the step), the pass is not rejected, the connection keeps its
\* transport, its wsDead, lastWsActivity and readyState, every entry of its
\* pairs map that is kept is unchanged, and the connection is still stale, so
\* that the next pass tries again.
C33_RefreshRetried ==
    [][\A c \in DOMAIN runtimes \cap DOMAIN runtimes' :
          LET old == heap[runtimes[c]]
              new == heap'[runtimes'[c]]
          IN  (/\ C33_JudgedStale
               /\ runtimes'[c] = runtimes[c]
               /\ old.isWebSocket
               /\ new.provider = old.provider)
              => /\ trk'.last.id # trk.last.id => ~trk'.last.rejected
                 /\ new.wsDead = old.wsDead
                 /\ new.lastWsActivity = old.lastWsActivity
                 /\ new.readyState = old.readyState
                 /\ \A a \in DOMAIN new.pairs \cap DOMAIN old.pairs :
                        new.pairs[a] = old.pairs[a]
                 /\ IsStale(new, now')]_vars

\* a second pass has ended that judged the websocket stale and left the
\* transport and the subscription of the first pass as they were
C33_Witness ==
    /\ trk.last.id = 2 /\ trk.last.stale /\ ~trk.last.rejected
    /\ "bsc" \in DOMAIN trk.last.before
    /\ "bsc" \in DOMAIN trk.last.after
    /\ trk.last.after["bsc"].provider = trk.last.before["bsc"].provider
    /\ "p1" \in DOMAIN trk.last.before["bsc"].pairs
    /\ trk.last.after["bsc"].pairs = trk.last.before["bsc"].pairs

\* C38: the targetToken of a subscription, by which the V3 and V4 callbacks
\* classify the events of the pool, is the lowercased tokenAddress of the
\* first group of the chain that lists the pool, which is the token handleSwap
\* classifies by; stated for the subscriptions and the groups as a pass that
\* ran alone, with no command during it, has left them.
C38_AsClaimed ==
    LET l == trk.last
    IN  (l.id # 0 /\ l.quiet /\ l.alone /\ ~l.rejected) =>
          \A c \in DOMAIN l.after : \A a \in DOMAIN l.after[c].pairs :
             LET ms == {g \in DOMAIN l.gs :
                          l.gs[g].chain = c /\ ListsPool(l.gs[g], a)}
             IN  \A g \in ms :
                    (\A h \in ms : g <= h) =>
                       l.after[c].pairs[a].targetToken
                          = toLowerCase(l.gs[g].tokenAddress)

\* C5: when a pass that began with a websocket silent for more than 60 s has
\* replaced the transport (undisturbed by commands and by other passes),
\* every pool subscribed on the chain before the pass is still subscribed,
\* with the same tokens and target, its listeners attached to the new
\* transport.
C5_AsClaimed ==
    LET l == trk.last
    IN  (l.id # 0 /\ l.quiet /\ l.alone /\ ~l.rejected) =>
          \A c \in l.idle :
             (c \in DOMAIN l.after /\ l.after[c].provider # l.before[c].provider)
             => \A a \in DOMAIN l.before[c].pairs :
                   /\ a \in DOMAIN l.after[c].pairs
                   /\ l.after[c].pairs[a].token0 = l.before[c].pairs[a].token0
                   /\ l.after[c].pairs[a].token1 = l.before[c].pairs[a].token1
                   /\ l.after[c].pairs[a].targetToken
                         = l.before[c].pairs[a].targetToken
                   /\ l.after[c].pairs[a].live
                   /\ l.after[c].pairs[a].provider = l.after[c].provider

\* C6: every PairRuntime in a registered runtime's pairs map has its
\* targetToken equal to its token0 or to its token1.
C6_AsClaimed ==
    \A c \in DOMAIN runtimes :
        \A a \in DOMAIN heap[runtimes[c]].pairs :
            LET pr == heap[runtimes[c]].pairs[a]
            IN  pr.targetToken \in {pr.token0, pr.token1}

(***************************************************************************)
(* Claims about syncLoop's timer, shutdown and /clearcache.                *)
(***************************************************************************)
\* a pass that syncLoop called has settled in this step
LoopPassSettles == trk'.last.id # trk.last.id /\ trk'.last.loop

\* syncLoop has armed its timer in this step
LoopTimerArmed == syncTimer' # syncTimer /\ syncTimer' # 0

\* C17: syncLoop arms the timer of the next pass only in the step in which
\* its syncListeners call settles, and it does so after every pass, fulfilled
\* or rejected, that ends with trackerRunning true; the timer is the one
\* syncTimer holds and its delay is 15 s.
C17_Rearm ==
    [][/\ LoopTimerArmed => (LoopPassSettles /\ trackerRunning')
       /\ (LoopPassSettles /\ trackerRunning') =>
             /\ LoopTimerArmed
             /\ [id |-> syncTimer', kind |-> "loop", delay |-> SYNC_DELAY_MS]
                    \in timers'
       /\ \A tm \in timers' \ timers :
             tm.kind = "loop" => tm.id = syncTimer' /\ LoopTimerArmed]_vars

\* a rejected pass of syncLoop has ended and the next timer is pending
C17_Witness ==
    /\ trackerRunning
    /\ trk.last.id # 0 /\ trk.last.loop /\ trk.last.rejected
    /\ [id |-> syncTimer, kind |-> "loop", delay |-> SYNC_DELAY_MS] \in timers

\* shutdownLiveBuyTracker has run in this step
ShutdownReturns == trk'.nShutdowns # trk.nShutdowns

\* syncLoop has called syncListeners in this step
LoopPassBegins ==
    /\ trk'.nPasses # trk.nPasses
    /\ \/ \E p \in passes' : p.id = trk'.nPasses /\ p.loop
       \/ trk'.last.id = trk'.nPasses /\ trk'.last.loop

\* C18: when shutdownLiveBuyTracker returns, no PairRuntime of any runtime
\* object has a listener attached, every websocket is closed, every scanner's
\* abort token is signalled, the registry is empty and the timer syncTimer
\* held is cancelled; and while trackerRunning is false syncLoop starts no
\* pass.
C18_AsClaimed ==
    [][/\ ShutdownReturns =>
             /\ \A i \in DOMAIN heap' : \A a \in DOMAIN heap'[i].pairs :
                    ~heap'[i].pairs[a].live
             /\ \A i \in DOMAIN heap' :
                    heap'[i].isWebSocket => heap'[i].readyState = 3
             /\ \A i \in DOMAIN scanners' : scanners'[i].aborted
             /\ runtimes' = <<>>
             /\ syncTimer' = 0
             /\ \A tm \in timers' : tm.id # syncTimer
       /\ LoopPassBegins => trackerRunning']_vars

\* C24: every PairRuntime with attached listeners is in the pairs map of a
\* runtime the registry holds, and once shutdownLiveBuyTracker has emptied
\* the registry (trackerRunning still false) no pass fills it again.
C24_AsClaimed ==
    /\ \A i \in DOMAIN heap :
          (\E a \in DOMAIN heap[i].pairs : heap[i].pairs[a].live)
             => \E c \in DOMAIN runtimes : runtimes[c] = i
    /\ (trk.nShutdowns > 0 /\ ~trackerRunning) => runtimes = <<>>

\* C19: after the shutdown sequence (the queue is stopped, then
\* shutdownLiveBuyTracker has returned) the contract-check cache and the
\* cooldown map are empty.  (The pair-stats and native-price caches, which
\* the claim names too, are not part of the state.)
C19_AsClaimed ==
    [][(ShutdownReturns /\ ~timer') =>
          /\ lastAlertAt' = <<>>
          /\ contractCheckCache' = <<>>]_vars

\* the pass that ended last was called by the timer of clearLiveTrackerCaches
\* and no other such pass has been or will be called
ResyncPassEnded ==
    /\ trk.last.id # 0 /\ ~trk.last.loop
    /\ trk.nClears = 1

\* every pool a group lists is subscribed on its chain with its listeners
\* attached, unless the pass had to skip a pool (invalid address, no target
\* token, tokens not readable)
Resubscribed ==
    trk.last.skipped = 0 =>
        /\ AllSubscribed(trk.last.gs, trk.last.after)
        /\ \A c \in DOMAIN trk.last.after :
              \A a \in DOMAIN trk.last.after[c].pairs :
                  trk.last.after[c].pairs[a].live

\* C20: after the resync pass that clearLiveTrackerCaches schedules, every
\* pool still configured by a group (valid address, readable tokens) is
\* subscribed again.
C20_AsClaimed == ResyncPassEnded => Resubscribed

(***************************************************************************)
(* Claims about the classifier and the position-increase guard.            *)
(***************************************************************************)
InCount  == (IF pure.out.amount0In > 0 THEN 1 ELSE 0)
              + (IF pure.out.amount1In > 0 THEN 1 ELSE 0)
OutCount == (IF pure.out.amount0Out > 0 THEN 1 ELSE 0)
              + (IF pure.out.amount1Out > 0 THEN 1 ELSE 0)
NonNegative ==
    /\ pure.out.amount0In >= 0 /\ pure.out.amount1In >= 0
    /\ pure.out.amount0Out >= 0 /\ pure.out.amount1Out >= 0

\* C7, as claimed: whatever the deltas, the four amounts a V3/V4 callback
\* passes on are non-negative, exactly one of the in-amounts is positive and
\* exactly one of the out-amounts is positive.
C7_AsClaimed ==
    (pure.op \in {"v3", "v4"} /\ pure.out.passed) =>
        NonNegative /\ InCount = 1 /\ OutCount = 1

\* C7, amended: the amounts passed on are non-negative, with at most one
\* in-amount and at least one out-amount positive; exactly one of each is
\* positive for every event that gets past the amount guard of handleSwap.
C7_OneSided ==
    (pure.op \in {"v3", "v4"} /\ pure.out.passed) =>
        /\ NonNegative
        /\ InCount <= 1
        /\ OutCount >= 1
        /\ pure.out.accepted => (InCount = 1 /\ OutCount = 1)

C7_Witness ==
    /\ pure.op = "v4" /\ pure.out.passed /\ pure.out.accepted
    /\ pure.target = "w" /\ pure.a0 = 2 /\ pure.a1 = 0 - 1
    /\ pure.out.amount0In = 2 /\ pure.out.amount1Out = 1

\* C34: a V3 or V4 event whose delta on the slot of the target token is zero
\* or positive is dropped by the callback: handleSwap is not called, and so
\* no job is enqueued.
C34_SellDiscarded ==
    (/\ pure.op \in {"v3", "v4"}
     /\ \/ pure.target = SubTokens.token0 /\ pure.a0 >= 0
        \/ pure.target = SubTokens.token1 /\ pure.a1 >= 0)
    => ~pure.out.passed /\ ~pure.out.accepted

\* a V4 event with a zero delta on the target's slot (token1) and a negative
\* delta on the other slot has been dropped
C34_Witness ==
    /\ pure.op = "v4" /\ pure.target = SubTokens.token1
    /\ pure.a1 = 0 /\ pure.a0 < 0
    /\ ~pure.out.passed

\* C35: for a V2 event handleSwap takes baseIn from the in-amount of the
\* slot that is not the target token's and tokenOut from the out-amount of
\* the target token's slot, and jobs are enqueued only when the target is one
\* of the pool's tokens and both are above zero.
C35_Sides ==
    pure.op = "v2" =>
        /\ pure.target = SubTokens.token0 =>
              /\ pure.out.baseIn = pure.am.amount1In
              /\ pure.out.tokenOut = pure.am.amount0Out
        /\ pure.target = SubTokens.token1 =>
              /\ pure.out.baseIn = pure.am.amount0In
              /\ pure.out.tokenOut = pure.am.amount1Out
        /\ pure.out.enq > 0 =>
              /\ pure.target \in {SubTokens.token0, SubTokens.token1}
              /\ pure.out.baseIn > 0 /\ pure.out.tokenOut > 0

\* a buy of token1 paid in token0 has produced jobs although the other two
\* amounts of the event are not zero either
C35_Witness ==
    /\ pure.op = "v2" /\ pure.target = SubTokens.token1
    /\ pure.am = [amount0In |-> 3, amount1In |-> 3,
                  amount0Out |-> 3, amount1Out |-> 3]
    /\ pure.out.enq > 0

\* C36: a decimals value reported by the market-data provider is the one
\* handleSwap uses, whatever the symbol and the on-chain read say.
C36_AsClaimed ==
    (pure.op = "decimals" /\ pure.reported.has)
        => pure.out.decimals = pure.reported.decimals

\* C8: with a USD value of at least 100 and a previous balance above 0,
\* positionIncrease is null when this buy exceeds 100,000 % of the previous
\* balance (previous balance 1000 and a buy of 2,000,000 give null).
C8_AsClaimed ==
    (/\ pure.op = "position"
     /\ pure.usdX10 >= 1000
     /\ pure.hasRuntime /\ pure.rpcOk /\ pure.balance > 0
     /\ pure.buy * 100 > 100000 * pure.balance)
    => pure.out.isNull

(***************************************************************************)
(* Claims about pool discovery.                                            *)
(***************************************************************************)
\* the pools of the API answer that are of chain bsc, trade the token and
\* hold at least the liquidity floor (none when the fetch fails)
Found ==
    {i \in 1..Len(pure.api) :
        /\ pure.apiOk
        /\ pure.api[i].chainId \in {"bsc", "56"}
        /\ pure.api[i].tokenMatch
        /\ pure.api[i].liquidityUsd >= LIQUIDITY_FLOOR}

\* the list is the min(N, TOP_PAIRS) pools found of highest liquidity, in
\* descending order of liquidity, and dirty is set when one was found
TopFilled ==
    LET list == pure.out.list
        liq(i) == pure.api[i].liquidityUsd
    IN  /\ Len(list) = Min(Cardinality(Found), TOP_PAIRS)
        /\ \A k \in 1..Len(list) : list[k] \in Found
        /\ \A j \in 1..Len(list), k \in 1..Len(list) :
              j < k => (list[j] # list[k] /\ liq(list[j]) >= liq(list[k]))
        /\ \A i \in Found \ SeqToSet(list) :
              \A k \in 1..Len(list) : liq(i) <= liq(list[k])
        /\ pure.out.dirty <=> Found # {}

\* C12, as claimed: for every group with an empty pool list the pass calls
\* discovery and the list becomes the top min(N, TOP_PAIRS) pools found,
\* marked dirty, or stays empty and unmarked when none is found.
C12_AsClaimed ==
    pure.op = "discover" => (pure.out.called /\ TopFilled)

\* C12, amended: the same for a group of a chain that has an RPC endpoint
\* configured; the group of a chain without one is passed over: discovery
\* is not called, its list stays empty and nothing is marked dirty.
C12_TopPairs ==
    pure.op = "discover" =>
        IF pure.configured
        THEN pure.out.called /\ TopFilled
        ELSE ~pure.out.called /\ pure.out.list = <<>> /\ ~pure.out.dirty

C12_Witness ==
    /\ pure.op = "discover" /\ pure.configured /\ pure.apiOk
    /\ Cardinality(Found) = TOP_PAIRS + 1
    /\ Len(pure.api) = TOP_PAIRS + 1
    /\ pure.api[1].liquidityUsd < pure.api[TOP_PAIRS + 1].liquidityUsd
    /\ Len(pure.out.list) = TOP_PAIRS
    /\ pure.out.list[1] = TOP_PAIRS + 1
    /\ pure.out.dirty

\* the modelled time is over and maxPerSecond jobs were started in its last
\* second
ClockSpent ==
    /\ now + 1000 > StartTime + MaxClock * 1000
    /\ Cardinality({r \in ran : now - r.at <= 1000}) >= maxPerSecond

\* C39: a job that waits in the queue is eventually started, unless overflow
\* drops it first (or the modelled time ends with the rate budget of its last
\* second spent), given that the ticker keeps running and the promise of
\* every started job settles; and no job is started more than once.
C39_EventuallyStarted ==
    /\ [](\A r1 \in ran, r2 \in ran : r1.ev = r2.ev => r1 = r2)
    /\ \A i \in 1..MaxJobs :
          (\E k \in 1..Len(jobs) : jobs[k].ev = i)
             ~> \/ \E r \in ran : r.ev = i
                \/ \A k \in 1..Len(jobs) : jobs[k].ev # i
                \/ ClockSpent

C39_Witness ==
    /\ droppedCount > 0
    /\ \E i \in 1..Len(history) : \E r \in RunOf(i) : r.seq > maxPerSecond
    /\ \E i \in 1..Len(history) : Queued(i)
    /\ \E r \in ran : r.threw

\* C40: a scanner loop whose token is signalled calls getNewPairsHybrid no
\* more and ends (given that the call it waits for settles and its poll
\* timer fires), and no chain ever has two loops whose token is not
\* signalled.
C40_Abort ==
    /\ [][\A i \in DOMAIN scanners :
            scanners[i].aborted =>
               /\ scanners'[i].aborted
               /\ scanners'[i].calls = scanners[i].calls]_vars
    /\ [](\A i \in DOMAIN scanners, j \in DOMAIN scanners :
            (/\ scanners[i].chain = scanners[j].chain
             /\ ~scanners[i].aborted /\ ~scanners[j].aborted) => i = j)
    /\ \A i \in 1..MaxScanners :
          (i \in DOMAIN scanners /\ scanners[i].aborted)
             ~> (i \in DOMAIN scanners /\ scanners[i].pc = "done")

C40_Witness ==
    /\ \E i \in DOMAIN scanners, j \in DOMAIN scanners :
          /\ scanners[i].chain = scanners[j].chain
          /\ scanners[i].aborted /\ scanners[i].pc = "done"
          /\ scanners[i].calls >= 2
          /\ ~scanners[j].aborted /\ scanners[j].calls >= 2
    /\ \E i \in DOMAIN scanners :
          /\ scanners[i].aborted /\ scanners[i].pc = "done"
          /\ scanners[i].chain \notin DOMAIN scannerAbortControllers

====
